---------------------------- MODULE Spec2Model ----------------------------
(* Verification model of the memoria-scholae backend core:                 *)
(*   services/memory_service.py        the in-process memory store         *)
(*   services/memory_consolidation.py  memory strength and consolidation   *)
(*   services/graph_reasoning.py       graph reasoning operations          *)
(*   services/memory_graph_fusion.py   memory-graph fusion operations      *)
(*   services/multi_agent.py           the four-phase agent pipeline       *)
(* Floats are fixed-point integers with SCALE units per 1.0; python dicts  *)
(* are records, python lists are sequences, datetimes are whole days.      *)
EXTENDS Integers, Sequences, FiniteSets, TLC

VARIABLES
    mock_memories,  \* MockMemoryService.mock_memories: user_id -> list of memory dicts
    mock_data,      \* MockGraphService.mock_data
    heap,           \* hypothesis dict objects, by address (python reference semantics)
    now,            \* the wall clock, in days (datetime.now())
    pc,             \* position of the collaborative_research call in flight
    rid,            \* its researcher_id
    topic,          \* its research_topic
    len0,           \* number of records its researcher had when it was called
    reserved,       \* number of records the calls so far may have stored
    arg,            \* the argument the phase that ran last was called with
    raised,         \* whether a capability call of the run has raised
    papers,         \* its local "papers"
    paper_ids,      \* its local "paper_ids"
    patterns,       \* its local "patterns"
    hypotheses,     \* its local "hypotheses" (addresses into heap)
    refined,        \* its local "refined_hypotheses" (addresses into heap)
    op,             \* the operation that acted last
    result,         \* what that operation returned
    calls,          \* the capability calls and phase marks that operation made, in order
    put_log,        \* history: per user, the content of each record as it was when put
    smem,           \* strength probe: the memory dict under evaluation
    snow,           \* strength probe: first evaluation time
    sout,           \* strength probe: result of the first evaluation
    snow2,          \* strength probe: second evaluation time
    sout2,          \* strength probe: result of the second evaluation
    sac3,           \* strength probe: access count of the evaluation with another count
    sout3,          \* strength probe: result of that evaluation
    pin,            \* function probe: the function applied and its arguments
    pout,           \* function probe: what it returned
    threads,        \* concurrent calls: each thread's position in _store_mock_memory
    acked           \* concurrent calls: the puts that returned {"status": "success"}

vars == <<mock_memories, mock_data, heap, now, reserved, pc, rid, topic, len0, arg, raised,
              papers, paper_ids,
          patterns, hypotheses, refined, op, result, calls, put_log,
          smem, snow, sout, snow2, sout2, sac3, sout3, pin, pout, threads, acked>>

pipeVars == <<pc, rid, topic, len0, arg, raised, papers, paper_ids, patterns, hypotheses, refined>>
mainVars == <<mock_memories, mock_data, heap, now, reserved, pc, rid, topic, len0, arg, raised,
              papers, paper_ids,
              patterns, hypotheses, refined, op, result, calls, put_log>>
probeVars == <<smem, snow, sout, snow2, sout2, sac3, sout3>>
concVars == <<threads, acked>>
pureVars == <<pin, pout>>
sideVars == <<probeVars, concVars, pureVars>>

-----------------------------------------------------------------------------
(* Bounds of the model *)

MaxMem == 6          \* records per researcher
MaxNow == 90         \* last day the clock reaches
MaxPapers == 2       \* papers ingested between the calls of the engines
MaxAccess == 3       \* largest access_count probed
MaxElapsed == 60     \* largest probed distance in days between timestamp and evaluation
MaxExposures == 11   \* most memories a probed search returns
MaxKnown == 11       \* most concepts a probed researcher knows
MaxCount == 12       \* most papers, patterns or hypotheses of a probed run
MaxGrouped == 3      \* most memories of a probed consolidation
MaxCandidates == 11  \* most candidate papers a probed scout is given
MaxIds == 3          \* most paper ids a probed pattern spotter is given
MaxPatterns == 4     \* most patterns a probed hypothesis generator is given
MaxHypotheses == 6   \* most hypotheses a probed debate is given
MaxYearPapers == 3   \* most papers of one year in a probed concept timeline
MaxPathLength == 3   \* longest first path from a probed known concept to the target
MaxToday == 7        \* most papers read in the last 24 hours in a probed load report
MaxPairs == 3        \* most author pairs a probed community detection is given

(* Fixed-point unit: 1.0 is SCALE *)
SCALE == 10000

-----------------------------------------------------------------------------
(* Python helpers *)

\* dict.get(key, default)
Get(d, k, default) == IF k \in DOMAIN d THEN d[k] ELSE default

\* list[:n]
Take(s, n) == IF Len(s) <= n THEN s ELSE SubSeq(s, 1, n)

Min(a, b) == IF a < b THEN a ELSE b
Max(a, b) == IF a > b THEN a ELSE b
Abs(a) == IF a < 0 THEN 0 - a ELSE a

EmptyDict == [x \in {} |-> 0]

\* outcome of an expression that may raise
Raised == [exc |-> TRUE, v |-> 0]
Value(x) == [exc |-> FALSE, v |-> x]

-----------------------------------------------------------------------------
(* math.log and math.exp in fixed point *)

\* math.log(n) * SCALE for n = 1 .. 12
LnTable == <<0, 6931, 10986, 13863, 16094, 17918, 19459, 20794, 21972, 23026, 23979, 24849>>

\* math.log: ValueError for n <= 0
math_log(n) == IF n <= 0 THEN Raised ELSE Value(LnTable[n])

\* exp(-1) * SCALE
ExpMinusOne == 3679

RECURSIVE ExpNegInt(_)
\* exp(-k) for a natural k; below one fixed-point unit from k = 9 on
ExpNegInt(k) ==
    IF k = 0 THEN SCALE
    ELSE IF k > 9 THEN 0
    ELSE (ExpNegInt(k - 1) * ExpMinusOne) \div SCALE

RECURSIVE TaylorNeg(_, _, _, _)
\* sum of the series of exp(-f), 0 <= f < 1: term is the magnitude of term n
TaylorNeg(f, n, term, acc) ==
    IF term = 0 \/ n > 10 THEN acc
    ELSE LET nxt == (term * f) \div (SCALE * n)
         IN TaylorNeg(f, n + 1, nxt, IF n % 2 = 1 THEN acc - nxt ELSE acc + nxt)

\* exp(-x) for x >= 0 (x in fixed point)
ExpNeg(x) == (ExpNegInt(x \div SCALE) * TaylorNeg(x % SCALE, 1, SCALE, SCALE)) \div SCALE

\* largest argument of math.exp that does not overflow a double (709.78)
ExpOverflowArg == 7097827

\* exp(x) for 0 < x: exact up to e^5, larger values are represented by e^5
\* (only min(1.0, .) consumes them)
ExpPos(x) == (SCALE * SCALE) \div ExpNeg(Min(x, 5 * SCALE))

\* math.exp: OverflowError above ExpOverflowArg
math_exp(x) ==
    IF x > ExpOverflowArg THEN Raised
    ELSE IF x > 0 THEN Value(ExpPos(x))
    ELSE Value(ExpNeg(0 - x))

\* the sign of the exponent lost: time_elapsed / (strength * 30)
DecayArgSignLost(time_elapsed, strength) ==
    LET den == (strength * 30) \div 100
        num == Abs(time_elapsed) * 100
        q == ((num \div den) * SCALE) + (((num % den) * SCALE) \div den)
    IN IF time_elapsed >= 0 THEN q ELSE 0 - q

\* the strength multiplied instead of divided: -time_elapsed * strength / 30
DecayArgTimesStrength(time_elapsed, strength) ==
    LET q == (Abs(time_elapsed) * strength) \div 30
    IN IF time_elapsed >= 0 THEN 0 - q ELSE q

\* -time_elapsed / (strength * 30), time_elapsed in days, strength in fixed point:
\* the quotient is formed from integer and fractional part to stay within 32 bits
DecayArg(time_elapsed, strength) ==
    LET den == (strength * 30) \div 100
        num == Abs(time_elapsed) * 100
        q == ((num \div den) * SCALE) + (((num % den) * SCALE) \div den)
    IN IF time_elapsed >= 0 THEN 0 - q ELSE q

-----------------------------------------------------------------------------
(* Timestamps.  A timestamp value is [form, day]:                           *)
(*   None        the key is absent / None                                    *)
(*   empty_str   ''                                                          *)
(*   iso_naive   an ISO string without offset                                *)
(*   iso_z       an ISO string ending in Z                                   *)
(*   iso_offset  an ISO string with +00:00                                   *)
(*   garbage     a string fromisoformat rejects                              *)
(*   dt_naive    a naive datetime object                                     *)
(*   dt_aware    an aware datetime object                                    *)
(*   number      a non-zero number                                           *)
(* An evaluation time is [aware, day].                                       *)

NoneTs == [form |-> "None", day |-> 0]

IsStr(ts) == ts.form \in {"empty_str", "iso_naive", "iso_z", "iso_offset", "garbage"}

\* python truthiness of the timestamp value
Truthy(ts) == ts.form \notin {"None", "empty_str"}

\* datetime.fromisoformat(timestamp.replace('Z', '+00:00')): ValueError on garbage
fromisoformat(ts) ==
    IF ts.form = "iso_naive" THEN Value([aware |-> FALSE, day |-> ts.day])
    ELSE IF ts.form \in {"iso_z", "iso_offset"} THEN Value([aware |-> TRUE, day |-> ts.day])
    ELSE Raised

\* (current_time - memory_time).total_seconds() / 86400: TypeError when one side
\* is aware and the other naive, or when memory_time is not a datetime
ElapsedDays(current_time, memory_time) ==
    IF "aware" \notin DOMAIN memory_time THEN Raised
    ELSE IF memory_time.aware # current_time.aware THEN Raised
    ELSE Value(current_time.day - memory_time.day)

HALF == SCALE \div 2

\* the clamp left out: return retention
ClampRetentionMissing(retention) == retention

\* return min(1.0, retention)
ClampRetention(retention) == Min(SCALE, retention)

\* the try block of calculate_memory_strength
StrengthBody(memory, current_time) ==
    LET timestamp == Get(Get(memory, "content", EmptyDict), "timestamp", NoneTs)
        memory_time == IF IsStr(timestamp) THEN fromisoformat(timestamp)
                       ELSE IF timestamp.form \in {"dt_naive", "dt_aware"}
                            THEN Value([aware |-> timestamp.form = "dt_aware", day |-> timestamp.day])
                            ELSE Value([number |-> TRUE])
        access_count == Get(Get(memory, "metadata", EmptyDict), "access_count", 1)
    IN IF ~Truthy(timestamp) THEN Value(HALF)
       ELSE IF memory_time.exc THEN Raised
       ELSE LET time_elapsed == ElapsedDays(current_time, memory_time.v)
                lg == math_log(access_count + 1)
            IN IF time_elapsed.exc \/ lg.exc THEN Raised
               ELSE LET strength == lg.v + SCALE
                        retention == math_exp(DecayArg(time_elapsed.v, strength))
                    IN IF retention.exc THEN Raised ELSE Value(ClampRetention(retention.v))

\* calculate_memory_strength: the try block, and 0.5 from the except clause
calculate_memory_strength(memory, current_time) ==
    LET body == StrengthBody(memory, current_time)
    IN IF body.exc THEN Value(HALF) ELSE body

-----------------------------------------------------------------------------
(* The memory store: MockMemoryService *)

Researchers == {"r1", "r2"}

\* records of user_id, [] when the user has none
Memories(mm, user_id) == IF user_id \in DOMAIN mm THEN mm[user_id] ELSE <<>>

\* _store_mock_memory: create the user's list when absent, number the record
\* by the length of the list, append it
_store_mock_memory(mm, user_id, memory_data) ==
    LET lst == Memories(mm, user_id)
        rec == [id |-> Len(lst) + 1] @@ memory_data
    IN [u \in (DOMAIN mm) \cup {user_id} |-> IF u = user_id THEN Append(lst, rec) ELSE mm[u]]

\* datetime.now().isoformat()
IsoNow(t) == [form |-> "iso_naive", day |-> t]

\* store_paper_memory
store_paper_memory(mm, researcher_id, paper_id, paper_data, t) ==
    _store_mock_memory(mm, researcher_id,
        [user_id |-> researcher_id,
         memory_type |-> "personal",
         content |-> [type |-> "paper_reading",
                      paper_id |-> paper_id,
                      title |-> Get(paper_data, "title", "None"),
                      abstract |-> Get(paper_data, "abstract", "None"),
                      key_concepts |-> Get(paper_data, "concepts", <<>>),
                      timestamp |-> IsoNow(t),
                      full_content |-> Get(paper_data, "full_text", "")],
         metadata |-> [source |-> "pdf_upload"]])

\* store_memory(user_id, memory_type, content): the put of the memory store
\* capability, appending through _store_mock_memory like its sibling methods
store_memory(mm, user_id, memory_type, content) ==
    _store_mock_memory(mm, user_id,
        [user_id |-> user_id, memory_type |-> memory_type, content |-> content])

NonePid == "None"

RECURSIVE FilterByPaper(_, _)
FilterByPaper(s, paper_id) ==
    IF s = <<>> THEN <<>>
    ELSE LET rest == FilterByPaper(Tail(s), paper_id)
         IN IF Get(Get(Head(s), "content", EmptyDict), "paper_id", NonePid) = paper_id
            THEN <<Head(s)>> \o rest ELSE rest

\* recall_paper_memories(researcher_id, paper_id=None, limit=10)
recall_paper_memories(mm, researcher_id, paper_id, limit) ==
    LET memories == Memories(mm, researcher_id)
        filtered == IF paper_id # NonePid THEN FilterByPaper(memories, paper_id) ELSE memories
    IN Take(filtered, limit)

\* the canned rows of search_memories
MockSearchRows ==
    <<[id |-> 101, score |-> 9500,
       content |-> [type |-> "paper_reading", paper_id |-> "mock-paper-1",
                    title |-> "Mock Paper 1: Semantic Search",
                    abstract |-> "This paper discusses semantic search.",
                    key_concepts |-> <<"Semantic Search", "Vector Databases">>]],
      [id |-> 102, score |-> 8800,
       content |-> [type |-> "paper_reading", paper_id |-> "mock-paper-2",
                    title |-> "Mock Paper 2: Graph Reasoning",
                    abstract |-> "This paper discusses graph reasoning.",
                    key_concepts |-> <<"Neo4j", "Cypher">>]]>>

\* search_memories(researcher_id, query, limit=10)
search_memories(mm, researcher_id, query, limit) == Take(MockSearchRows, limit)

\* get_recent_context(researcher_id, hours=24)
get_recent_context(mm, researcher_id, hours) ==
    <<[id |-> 401, content |-> [type |-> "paper_reading", paper_id |-> "mock-paper-1",
                                title |-> "Mock Paper 1"]],
      [id |-> 402, content |-> [type |-> "annotation", paper_id |-> "mock-paper-1",
                                annotation |-> "Key finding noted."]]>>

-----------------------------------------------------------------------------
(* Stored records that reference hypothesis dicts: the record holds the     *)
(* addresses, its content is what the addresses hold in the heap            *)

Deref(hp, addrs) == [i \in DOMAIN addrs |-> hp[addrs[i]]]

\* the content of a stored record as a reader of the store sees it
Resolve(rec, hp) ==
    LET content == rec.content
    IN IF content.type = "agent_insight" /\ content.insight.action = "hypothesis_generation"
       THEN [rec EXCEPT !.content.insight.top_hypotheses = Deref(hp, @)]
       ELSE IF content.type = "multi_agent_collaboration"
       THEN [rec EXCEPT !.content.refined_hypotheses = Deref(hp, @)]
       ELSE rec

\* history of puts: the records appended to mm2 beyond those logged, as they read
LogPuts(plog, mm2, hp) ==
    [u \in DOMAIN mm2 |->
        LET old == IF u \in DOMAIN plog THEN plog[u] ELSE <<>>
        IN old \o [i \in 1 .. (Len(mm2[u]) - Len(old)) |-> Resolve(mm2[u][Len(old) + i], hp)]]

-----------------------------------------------------------------------------
(* try / except.  The body of an operation yields [exc, ret, ...]; the      *)
(* clause "except Exception: return fallback" turns a raise into a return.  *)

\* sequential evaluation: the value v of a statement, then the rest F of the block
Then(v, F(_)) == CHOOSE r \in {F(x) : x \in {v}} : TRUE

\* the except clause left out: the exception leaves the operation
ExceptMissing(body, fallback) == body

\* except Exception as e: ...; return fallback
Except(body, fallback) ==
    IF body.exc THEN [body EXCEPT !.exc = FALSE, !.ret = fallback] ELSE body

\* the error return carrying a phase output as well
ErrorDictPartial == [error |-> "str(e)", papers_discovered |-> <<>>]

\* return {"error": str(e)}
ErrorDict == [error |-> "str(e)"]

\* outcome of a capability call: rows, or the call raises
Fails == [exc |-> TRUE, v |-> <<>>]
Rows(r) == [exc |-> FALSE, v |-> r]

-----------------------------------------------------------------------------
(* Graph reasoning operations used by the agents.  g holds the outcome of   *)
(* each graph call the operation makes.                                     *)

\* find_analogies, the try block
find_analogies_body(source_domain, target_domain, max_analogies, g) ==
    LET methodological ==
            [i \in DOMAIN g.run.v |->
                [type |-> "methodological",
                 shared_method |-> g.run.v[i].method,
                 source_examples |-> g.run.v[i].source_papers,
                 target_examples |-> g.run.v[i].target_papers,
                 transferability_score |-> 8000]]
        bridges == Take(g.bridges.v, max_analogies)
        conceptual ==
            [i \in DOMAIN bridges |->
                [type |-> "conceptual",
                 bridge_concept |-> bridges[i],
                 transferability_score |-> 6000]]
    IN IF g.src.exc
       THEN [exc |-> TRUE, ret |-> <<>>, calls |-> <<"get_related_papers!">>]
       ELSE IF g.tgt.exc
       THEN [exc |-> TRUE, ret |-> <<>>, calls |-> <<"get_related_papers", "get_related_papers!">>]
       ELSE IF g.run.exc
       THEN [exc |-> TRUE, ret |-> <<>>,
             calls |-> <<"get_related_papers", "get_related_papers", "session.run!">>]
       ELSE IF methodological # <<>>
       THEN [exc |-> FALSE, ret |-> methodological,
             calls |-> <<"get_related_papers", "get_related_papers", "session.run">>]
       ELSE IF g.bridges.exc
       THEN [exc |-> TRUE, ret |-> <<>>,
             calls |-> <<"get_related_papers", "get_related_papers", "session.run",
                         "find_bridge_concepts!">>]
       ELSE [exc |-> FALSE, ret |-> conceptual,
             calls |-> <<"get_related_papers", "get_related_papers", "session.run",
                         "find_bridge_concepts">>]

\* find_analogies(source_domain, target_domain, max_analogies=5)
find_analogies(source_domain, target_domain, max_analogies, g) ==
    Except(find_analogies_body(source_domain, target_domain, max_analogies, g), <<>>)

\* detect_contradictions, the try block
detect_contradictions_body(concept, g) ==
    LET contradictions ==
            [i \in DOMAIN g.run.v |->
                [type |-> "citation_based",
                 paper1 |-> [id |-> g.run.v[i].citing_paper, title |-> g.run.v[i].citing_title],
                 paper2 |-> [id |-> g.run.v[i].cited_paper, title |-> g.run.v[i].cited_title],
                 confidence |-> 6000,
                 requires_investigation |-> TRUE]]
    IN IF g.src.exc
       THEN [exc |-> TRUE, ret |-> <<>>, calls |-> <<"get_related_papers!">>]
       ELSE IF g.run.exc
       THEN [exc |-> TRUE, ret |-> <<>>, calls |-> <<"get_related_papers", "session.run!">>]
       ELSE [exc |-> FALSE, ret |-> contradictions,
             calls |-> <<"get_related_papers", "session.run">>]

\* detect_contradictions(concept)
detect_contradictions(concept, g) == Except(detect_contradictions_body(concept, g), <<>>)

-----------------------------------------------------------------------------
(* The agents of services/multi_agent.py *)

Scout == [agent_id |-> "scout_001", role |-> "literature_scout"]
Spotter == [agent_id |-> "spotter_001", role |-> "pattern_spotter"]
Generator == [agent_id |-> "generator_001", role |-> "hypothesis_generator"]

\* store_insight writing only when the agent found something
store_insightSkipping(mm, agent, researcher_id, insight, t) ==
    IF Get(insight, "papers_found", 1) = 0
    THEN mm
    ELSE store_memory(mm, researcher_id, "project",
            [type |-> "agent_insight",
             agent_id |-> agent.agent_id,
             agent_role |-> agent.role,
             insight |-> insight,
             timestamp |-> IsoNow(t)])

\* ResearchAgent.store_insight
store_insight(mm, agent, researcher_id, insight, t) ==
    store_memory(mm, researcher_id, "project",
        [type |-> "agent_insight",
         agent_id |-> agent.agent_id,
         agent_role |-> agent.role,
         insight |-> insight,
         timestamp |-> IsoNow(t)])

\* only the first paper of the history is compared
AlreadyReadFirst(past_papers, paper_id) ==
    past_papers # <<>> /\ Get(past_papers[1], "paper_id", NonePid) = paper_id

\* any(p.get("paper_id") == paper_id for p in past_papers)
AlreadyRead(past_papers, paper_id) ==
    \E i \in DOMAIN past_papers : Get(past_papers[i], "paper_id", NonePid) = paper_id

RECURSIVE Recommend(_, _)
\* the loop over candidates[:10]
Recommend(candidates, past_papers) ==
    IF candidates = <<>> THEN <<>>
    ELSE LET paper == Head(candidates)
             paper_id == Get(paper, "paper_id", NonePid)
             rest == Recommend(Tail(candidates), past_papers)
         IN IF ~AlreadyRead(past_papers, paper_id)
            THEN <<[paper_id |-> paper_id,
                    title |-> Get(paper, "title", "None"),
                    relevance_score |-> 8000,
                    novelty_score |-> 9000]>> \o rest
            ELSE rest

\* scout_papers, the try block
scout_papers_body(mm, researcher_id, research_interest, t, g) ==
    LET recommendations == Recommend(Take(g.candidates.v, 10), g.past.v)
        insight == [action |-> "paper_scouting",
                    topic |-> research_interest,
                    papers_found |-> Len(recommendations),
                    recommendations |-> Take(recommendations, 5)]
    IN IF g.past.exc
       THEN [exc |-> TRUE, ret |-> <<>>, mm |-> mm, calls |-> <<"get_researcher_papers!">>]
       ELSE IF g.candidates.exc
       THEN [exc |-> TRUE, ret |-> <<>>, mm |-> mm,
             calls |-> <<"get_researcher_papers", "get_related_papers!">>]
       ELSE IF ~g.put_ok
       THEN [exc |-> TRUE, ret |-> <<>>, mm |-> mm,
             calls |-> <<"get_researcher_papers", "get_related_papers", "store_memory!">>]
       ELSE [exc |-> FALSE, ret |-> recommendations,
             mm |-> store_insight(mm, Scout, researcher_id, insight, t),
             calls |-> <<"get_researcher_papers", "get_related_papers", "store_memory">>]

\* LiteratureScoutAgent.scout_papers
scout_papers(mm, researcher_id, research_interest, t, g) ==
    Except(scout_papers_body(mm, researcher_id, research_interest, t, g), <<>>)

\* the order of sorted() on concept names
ConceptOrder == <<"c1", "c2", "c3">>
Rank(c) == CHOOSE i \in DOMAIN ConceptOrder : ConceptOrder[i] = c

\* a pair counted once per paper, and never a concept with itself
BumpOnce(counts, pair) ==
    IF pair[1] = pair[2] THEN counts
    ELSE IF \E i \in DOMAIN counts : counts[i].pair = pair
    THEN counts
    ELSE Append(counts, [pair |-> pair, count |-> 1])

\* tuple(sorted([c1, c2]))
SortedPair(c1, c2) == IF Rank(c2) < Rank(c1) THEN <<c2, c1>> ELSE <<c1, c2>>

\* concept_pairs[pair] += 1 on a dict kept in insertion order
Bump(counts, pair) ==
    IF \E i \in DOMAIN counts : counts[i].pair = pair
    THEN [i \in DOMAIN counts |->
            IF counts[i].pair = pair
            THEN [pair |-> pair, count |-> counts[i].count + 1] ELSE counts[i]]
    ELSE Append(counts, [pair |-> pair, count |-> 1])

RECURSIVE BumpInner(_, _, _)
\* for c2 in concepts[i+1:]
BumpInner(counts, c1, others) ==
    IF others = <<>> THEN counts
    ELSE BumpInner(Bump(counts, SortedPair(c1, Head(others))), c1, Tail(others))

RECURSIVE BumpConcepts(_, _)
\* for i, c1 in enumerate(concepts)
BumpConcepts(counts, concepts) ==
    IF concepts = <<>> THEN counts
    ELSE BumpConcepts(BumpInner(counts, Head(concepts), Tail(concepts)), Tail(concepts))

RECURSIVE CountPairs(_, _, _, _)
\* for paper_id in papers
CountPairs(counts, mm, researcher_id, ids) ==
    IF ids = <<>> THEN counts
    ELSE LET memories == recall_paper_memories(mm, researcher_id, Head(ids), 10)
             concepts == IF memories # <<>>
                         THEN Get(Get(memories[1], "content", EmptyDict), "key_concepts", <<>>)
                         ELSE <<>>
         IN CountPairs(BumpConcepts(counts, concepts), mm, researcher_id, Tail(ids))

RECURSIVE StrongPatterns(_, _)
\* the patterns with count >= 2
StrongPatterns(counts, n_papers) ==
    IF counts = <<>> THEN <<>>
    ELSE LET e == Head(counts)
             rest == StrongPatterns(Tail(counts), n_papers)
         IN IF e.count >= 2
            THEN <<[type |-> "concept_co_occurrence",
                    concept1 |-> e.pair[1],
                    concept2 |-> e.pair[2],
                    frequency |-> e.count,
                    pattern_strength |-> (e.count * SCALE) \div n_papers]>> \o rest
            ELSE rest

\* spot_patterns, the try block
spot_patterns_body(mm, researcher_id, ids, t, g) ==
    LET recalls == [i \in DOMAIN ids |-> "recall_paper_memories"]
        co == StrongPatterns(CountPairs(<<>>, mm, researcher_id, ids), Len(ids))
        probe == detect_contradictions(IF ids # <<>> THEN ids[1] ELSE "machine learning",
                                       g.contradictions)
        found == IF probe.ret # <<>>
                 THEN Append(co, [type |-> "contradiction", details |-> probe.ret[1]])
                 ELSE co
        insight == [action |-> "pattern_spotting",
                    papers_analyzed |-> Len(ids),
                    patterns_found |-> Len(found),
                    top_patterns |-> Take(found, 3)]
    IN IF ids # <<>> /\ ~g.recall_ok
       THEN [exc |-> TRUE, ret |-> <<>>, mm |-> mm, calls |-> <<"recall_paper_memories!">>]
       ELSE IF ~g.put_ok
       THEN [exc |-> TRUE, ret |-> <<>>, mm |-> mm,
             calls |-> recalls \o probe.calls \o <<"store_memory!">>]
       ELSE [exc |-> FALSE, ret |-> found,
             mm |-> store_insight(mm, Spotter, researcher_id, insight, t),
             calls |-> recalls \o probe.calls \o <<"store_memory">>]

\* PatternSpotterAgent.spot_patterns
spot_patterns(mm, researcher_id, ids, t, g) ==
    Except(spot_patterns_body(mm, researcher_id, ids, t, g), <<>>)

\* "a in b" on strings, strings being sequences of tokens
IsInfix(a, b) ==
    \E i \in 0 .. (Len(b) - Len(a)) : SubSeq(b, i + 1, i + Len(a)) = a

\* domains = ["machine learning", "biology", "physics"]
Domains == << <<"machine", "learning">>, <<"biology">>, <<"physics">> >>

RECURSIVE PatternHypotheses(_, _)
\* for pattern in patterns[:3]
PatternHypotheses(pats, research_topic) ==
    IF pats = <<>> THEN <<>>
    ELSE LET pattern == Head(pats)
             c1 == Get(pattern, "concept1", "None")
             c2 == Get(pattern, "concept2", "None")
             rest == PatternHypotheses(Tail(pats), research_topic)
         IN IF Get(pattern, "type", "None") = "concept_co_occurrence"
            THEN <<[hypothesis_text |-> <<"interaction", c1, c2, research_topic>>,
                    basis |-> "pattern_analysis",
                    pattern_strength |-> Get(pattern, "pattern_strength", HALF),
                    novelty_score |-> 7500,
                    testability |-> "high"]>> \o rest
            ELSE rest

RECURSIVE MethodHypotheses(_, _, _)
\* for analogy in analogies
MethodHypotheses(analogies, domain, research_topic) ==
    IF analogies = <<>> THEN <<>>
    ELSE LET analogy == Head(analogies)
             rest == MethodHypotheses(Tail(analogies), domain, research_topic)
         IN IF Get(analogy, "type", "None") = "methodological"
            THEN <<[hypothesis_text |-> <<"applying", Get(analogy, "shared_method", "None"),
                                         domain, research_topic>>,
                    basis |-> "cross_domain_analogy",
                    source_domain |-> domain,
                    novelty_score |-> 8500,
                    testability |-> "medium",
                    boldness |-> 8000]>> \o rest
            ELSE rest

RECURSIVE CrossDomain(_, _, _)
\* for domain in domains, from the i-th on: the hypotheses and the calls made
CrossDomain(i, research_topic, g) ==
    IF i > Len(Domains) THEN [hyps |-> <<>>, calls |-> <<>>]
    ELSE LET rest == CrossDomain(i + 1, research_topic, g)
             found == find_analogies(research_topic, Domains[i], 2, g.analogy[i])
         IN IF ~IsInfix(Domains[i], research_topic)
            THEN [hyps |-> MethodHypotheses(found.ret, Domains[i], research_topic) \o rest.hyps,
                  calls |-> found.calls \o rest.calls]
            ELSE rest

\* every pattern is considered
ConsideredPatternsAll(pats) == pats

\* patterns[:3]
ConsideredPatterns(pats) == Take(pats, 3)

\* generate_creative_hypotheses, the try block: the new hypothesis dicts are
\* allocated in the heap, the list and the stored insight hold their addresses
generate_creative_hypotheses_body(mm, hp, researcher_id, research_topic, pats, t, g) ==
    LET cross == CrossDomain(1, research_topic, g)
        objects == PatternHypotheses(ConsideredPatterns(pats), research_topic) \o cross.hyps
        addrs == [i \in DOMAIN objects |-> Len(hp) + i]
        insight == [action |-> "hypothesis_generation",
                    topic |-> research_topic,
                    hypotheses_generated |-> Len(objects),
                    top_hypotheses |-> Take(addrs, 3)]
    IN IF ~g.put_ok
       THEN [exc |-> TRUE, ret |-> <<>>, mm |-> mm, hp |-> hp,
             calls |-> cross.calls \o <<"store_memory!">>]
       ELSE [exc |-> FALSE, ret |-> addrs,
             mm |-> store_insight(mm, Generator, researcher_id, insight, t),
             hp |-> hp \o objects,
             calls |-> cross.calls \o <<"store_memory">>]

\* HypothesisGeneratorAgent.generate_creative_hypotheses
generate_creative_hypotheses(mm, hp, researcher_id, research_topic, pats, t, g) ==
    Except(generate_creative_hypotheses_body(mm, hp, researcher_id, research_topic, pats, t, g),
           <<>>)

\* a debate that supports every hypothesis alike
DebatedAlike(hypothesis) ==
    [confidence_after_debate |-> 8000, scout_support |-> TRUE, spotter_support |-> TRUE]
    @@ hypothesis

\* what the debate writes into a hypothesis dict
Debated(hypothesis) ==
    IF Get(hypothesis, "basis", "None") = "pattern_analysis"
    THEN [confidence_after_debate |-> 8000, scout_support |-> TRUE, spotter_support |-> TRUE]
         @@ hypothesis
    ELSE [confidence_after_debate |-> 7000, scout_support |-> FALSE, spotter_support |-> TRUE]
         @@ hypothesis

\* MultiAgentOrchestrator._agent_debate: the first five dicts are updated in place
_agent_debate(hp, hyps) ==
    LET first == Take(hyps, 5)
        touched == {first[i] : i \in DOMAIN first}
    IN [ret |-> first,
        hp |-> [a \in DOMAIN hp |-> IF a \in touched THEN Debated(hp[a]) ELSE hp[a]]]

\* round(score, 2), in fixed point
Round2(x) == ((x + 50) \div 100) * 100

\* the three terms without min(..., 1.0)
_calculate_collaboration_scoreUncapped(n_papers, n_patterns, n_hypotheses) ==
    Round2(((((n_papers * SCALE) \div 10) * 3) \div 10)
           + ((((n_patterns * SCALE) \div 5) * 3) \div 10)
           + ((((n_hypotheses * SCALE) \div 3) * 4) \div 10))

\* MultiAgentOrchestrator._calculate_collaboration_score
_calculate_collaboration_score(n_papers, n_patterns, n_hypotheses) ==
    Round2(((Min((n_papers * SCALE) \div 10, SCALE) * 3) \div 10)
           + ((Min((n_patterns * SCALE) \div 5, SCALE) * 3) \div 10)
           + ((Min((n_hypotheses * SCALE) \div 3, SCALE) * 4) \div 10))

\* the collaboration record of collaborative_research
CollaborationContent(research_topic, ps, pats, hyps, refd, t) ==
    [type |-> "multi_agent_collaboration",
     topic |-> research_topic,
     papers_scouted |-> Len(ps),
     patterns_found |-> Len(pats),
     hypotheses_generated |-> Len(hyps),
     refined_hypotheses |-> refd,
     timestamp |-> IsoNow(t)]

\* the dict collaborative_research returns
CollaborationResult(research_topic, ps, pats, hyps, refd, hp) ==
    [research_topic |-> research_topic,
     papers_discovered |-> Take(ps, 5),
     patterns_identified |-> Take(pats, 5),
     hypotheses_generated |-> Deref(hp, Take(refd, 5)),
     agent_insights |-> [scout |-> Len(ps), spotter |-> Len(pats), generator |-> Len(hyps)],
     collaboration_score |-> _calculate_collaboration_score(Len(ps), Len(pats), Len(hyps))]

-----------------------------------------------------------------------------
(* The consolidation engine: services/memory_consolidation.py.  An ordered  *)
(* dict is a sequence of [key, val] entries in insertion order.             *)

\* list.sort(key=..., reverse=True) on entries [k, v]: stable, descending
RECURSIVE InsertDesc(_, _)
InsertDesc(s, x) ==
    IF s = <<>> THEN <<x>>
    ELSE IF Head(s).k >= x.k THEN <<Head(s)>> \o InsertDesc(Tail(s), x)
    ELSE <<x>> \o s

RECURSIVE SortDesc(_)
SortDesc(s) ==
    IF s = <<>> THEN <<>>
    ELSE InsertDesc(SortDesc(SubSeq(s, 1, Len(s) - 1)), s[Len(s)])

\* datetime.now()
Now(t) == [aware |-> FALSE, day |-> t]

KeyConcepts(memory) == Get(Get(memory, "content", EmptyDict), "key_concepts", <<>>)

PaperIdOf(memory) == Get(Get(memory, "content", EmptyDict), "paper_id", NonePid)

\* position of key in an ordered dict, 0 when absent
RECURSIVE KeyIndex(_, _)
KeyIndex(d, key) ==
    IF d = <<>> THEN 0
    ELSE IF d[Len(d)].key = key THEN Len(d)
    ELSE KeyIndex(SubSeq(d, 1, Len(d) - 1), key)

\* concept_groups[concept].append(item)
AppendTo(d, key, item) ==
    LET i == KeyIndex(d, key)
    IN IF i = 0 THEN Append(d, [key |-> key, val |-> <<item>>])
       ELSE [d EXCEPT ![i].val = Append(@, item)]

RECURSIVE AppendToAll(_, _, _)
AppendToAll(d, keys, item) ==
    IF keys = <<>> THEN d ELSE AppendToAll(AppendTo(d, Head(keys), item), Tail(keys), item)

\* _group_by_concept
RECURSIVE _group_by_concept(_)
_group_by_concept(memory_strengths) ==
    IF memory_strengths = <<>> THEN <<>>
    ELSE LET n == Len(memory_strengths)
             item == memory_strengths[n]
         IN AppendToAll(_group_by_concept(SubSeq(memory_strengths, 1, n - 1)),
                        KeyConcepts(item.memory), item)

GroupPapers(group) == {PaperIdOf(group.val[i].memory) : i \in DOMAIN group.val}

\* the overlap divided by the larger of the two paper sets
CrossRefByLarger(g1, g2) ==
    LET overlap == GroupPapers(g1) \cap GroupPapers(g2)
    IN IF overlap = {} THEN <<>>
       ELSE <<[concept1 |-> g1.key,
               concept2 |-> g2.key,
               shared_papers |-> Cardinality(overlap),
               strength |-> (Cardinality(overlap) * SCALE)
                            \div Max(Cardinality(GroupPapers(g1)), Cardinality(GroupPapers(g2)))]>>

\* the cross-reference of two concept groups, <<>> when they share no paper
CrossRef(g1, g2) ==
    LET overlap == GroupPapers(g1) \cap GroupPapers(g2)
    IN IF overlap = {} THEN <<>>
       ELSE <<[concept1 |-> g1.key,
               concept2 |-> g2.key,
               shared_papers |-> Cardinality(overlap),
               strength |-> (Cardinality(overlap) * SCALE)
                            \div Min(Cardinality(GroupPapers(g1)), Cardinality(GroupPapers(g2)))]>>

RECURSIVE CrossRefsFrom(_, _, _)
CrossRefsFrom(groups, i, j) ==
    IF i > Len(groups) THEN <<>>
    ELSE IF j > Len(groups) THEN CrossRefsFrom(groups, i + 1, i + 2)
    ELSE CrossRef(groups[i], groups[j]) \o CrossRefsFrom(groups, i, j + 1)

\* _build_cross_references
_build_cross_references(concept_groups) == CrossRefsFrom(concept_groups, 1, 2)

\* _generate_summary: the lines "- concept: n memories" of the five largest groups
_generate_summary(concept_groups) ==
    LET sorted == SortDesc([i \in DOMAIN concept_groups |->
                              [k |-> Len(concept_groups[i].val), v |-> concept_groups[i].key]])
        top == Take(sorted, 5)
    IN [i \in DOMAIN top |-> [concept |-> top[i].v, memories |-> top[i].k]]

\* the strengths of the memories, in the order of the memories
Strengths(memories, t) ==
    [i \in DOMAIN memories |-> calculate_memory_strength(memories[i], Now(t)).v]

CountWhere(s, Test(_)) == Cardinality({i \in DOMAIN s : Test(s[i])})

\* the weak memories removed from the store
StoreAfterConsolidatePruned(mm, researcher_id, to_prune) ==
    IF to_prune = <<>> THEN mm
    ELSE [mm EXCEPT ![researcher_id] =
            SelectSeq(@, LAMBDA m : \A i \in DOMAIN to_prune : to_prune[i].v.memory # m)]

\* to_prune is only counted: the store after consolidate_memories
StoreAfterConsolidate(mm, researcher_id, to_prune) == mm

\* consolidate_memories, the try block
consolidate_memories_body(mm, researcher_id, t, g) ==
    LET memories == recall_paper_memories(mm, researcher_id, NonePid, 100)
        strengths == Strengths(memories, t)
        memory_strengths ==
            SortDesc([i \in DOMAIN memories |->
                        [k |-> strengths[i],
                         v |-> [memory |-> memories[i], strength |-> strengths[i]]]])
        items == [i \in DOMAIN memory_strengths |-> memory_strengths[i].v]
        concept_groups == _group_by_concept(items)
        cross_refs == _build_cross_references(concept_groups)
        to_strengthen == SelectSeq(memory_strengths, LAMBDA m : m.k > 7000)
        to_prune == SelectSeq(memory_strengths, LAMBDA m : m.k < 2000)
    IN IF ~g.recall_ok
       THEN [exc |-> TRUE, ret |-> <<>>, mm |-> mm, calls |-> <<"recall_paper_memories!">>]
       ELSE [exc |-> FALSE,
             ret |-> [total_memories |-> Len(memories),
                      strong_memories |-> Len(to_strengthen),
                      weak_memories |-> Len(to_prune),
                      concept_groups |-> Len(concept_groups),
                      cross_references |-> Len(cross_refs),
                      consolidation_summary |-> _generate_summary(concept_groups)],
             mm |-> StoreAfterConsolidate(mm, researcher_id, to_prune),
             calls |-> <<"recall_paper_memories">>]

\* consolidate_memories(researcher_id)
consolidate_memories(mm, researcher_id, t, g) ==
    Except(consolidate_memories_body(mm, researcher_id, t, g), ErrorDict)

\* the thresholds compared with > instead of >=
_calculate_masteryStrict(exposure_count) ==
    IF exposure_count > 10 THEN "expert"
    ELSE IF exposure_count > 5 THEN "proficient"
    ELSE IF exposure_count > 2 THEN "familiar"
    ELSE "novice"

\* _calculate_mastery
_calculate_mastery(exposure_count) ==
    IF exposure_count >= 10 THEN "expert"
    ELSE IF exposure_count >= 5 THEN "proficient"
    ELSE IF exposure_count >= 2 THEN "familiar"
    ELSE "novice"

\* a string as its lower-cased words
Words(s) ==
    IF s = "Semantic Search" THEN <<"semantic", "search">>
    ELSE IF s = "Vector Databases" THEN <<"vector", "databases">>
    ELSE IF s = "Neo4j" THEN <<"neo4j">>
    ELSE IF s = "Cypher" THEN <<"cypher">>
    ELSE IF s = "SEARCH" THEN <<"search">>
    ELSE IF s = "machine learning" THEN <<"machine", "learning">>
    ELSE IF s = "" THEN <<>>
    ELSE <<s>>

\* concept.lower() in str(key_concepts).lower()
InConceptsText(concept, key_concepts) ==
    \/ Words(concept) = <<>>
    \/ \E i \in DOMAIN key_concepts : IsInfix(Words(concept), Words(key_concepts[i]))

EmptyStr == [form |-> "empty_str", day |-> 0]

\* the memories whose key_concepts text contains the concept
ConceptHits(concept, memories) ==
    SelectSeq(memories, LAMBDA m : InConceptsText(concept, KeyConcepts(m)))

\* track_concept_evolution: the report built from the memories the search returned
\* (the timeline rows all carry the same timestamp "", so the sort keeps their order)
EvolutionReport(concept, memories) ==
    LET hits == ConceptHits(concept, memories)
        timeline == [i \in DOMAIN hits |->
                        [timestamp |-> Get(hits[i].content, "timestamp", EmptyStr),
                         paper_id |-> Get(hits[i].content, "paper_id", NonePid),
                         title |-> Get(hits[i].content, "title", "None"),
                         context |-> Get(hits[i].content, "abstract", "")]]
    IN [concept |-> concept,
        first_encountered |-> IF timeline # <<>> THEN timeline[1].timestamp ELSE NoneTs,
        total_exposures |-> Len(timeline),
        evolution_score |-> Min(SCALE, Len(timeline) * (SCALE \div 10)),
        timeline |-> timeline,
        mastery_level |-> _calculate_mastery(Len(timeline))]

\* track_concept_evolution, the try block
track_concept_evolution_body(mm, researcher_id, concept, g) ==
    IF ~g.search_ok
    THEN [exc |-> TRUE, ret |-> <<>>, mm |-> mm, calls |-> <<"search_memories!">>]
    ELSE [exc |-> FALSE,
          ret |-> EvolutionReport(concept, search_memories(mm, researcher_id, concept, 50)),
          mm |-> mm,
          calls |-> <<"search_memories">>]

\* track_concept_evolution(researcher_id, concept)
track_concept_evolution(mm, researcher_id, concept, g) ==
    Except(track_concept_evolution_body(mm, researcher_id, concept, g), ErrorDict)

\* identify_memory_gaps, the try block
identify_memory_gaps_body(researcher_id, g) ==
    LET emerging == Take(g.emerging.v, 10)
        gaps == [i \in DOMAIN emerging |->
                    [concept |-> Get(emerging[i], "concept", "None"),
                     importance |-> Get(emerging[i], "recent_count", 0),
                     reason |-> "Emerging trend in recent papers",
                     recommended_action |-> "Read papers discussing this concept"]]
    IN IF g.papers.exc
       THEN [exc |-> TRUE, ret |-> <<>>, calls |-> <<"get_researcher_papers!">>]
       ELSE IF g.emerging.exc
       THEN [exc |-> TRUE, ret |-> <<>>,
             calls |-> <<"get_researcher_papers", "get_emerging_concepts!">>]
       ELSE [exc |-> FALSE, ret |-> gaps,
             calls |-> <<"get_researcher_papers", "get_emerging_concepts">>]

\* identify_memory_gaps(researcher_id)
identify_memory_gaps(researcher_id, g) == Except(identify_memory_gaps_body(researcher_id, g), <<>>)

\* _generate_recommendations
_generate_recommendations(avg_strength, gap_count) ==
    (IF avg_strength < HALF THEN <<"Review older papers to strengthen memories">> ELSE <<>>)
    \o (IF gap_count > 5 THEN <<"Explore emerging concepts to fill knowledge gaps">> ELSE <<>>)
    \o <<"Regular reading maintains memory strength">>

RECURSIVE SumSeq(_)
SumSeq(s) == IF s = <<>> THEN 0 ELSE Head(s) + SumSeq(Tail(s))

\* concept_freq[concept] += 1 over all_concepts
RECURSIVE ConceptFreq(_)
ConceptFreq(all_concepts) ==
    IF all_concepts = <<>> THEN <<>>
    ELSE LET n == Len(all_concepts)
             d == ConceptFreq(SubSeq(all_concepts, 1, n - 1))
             i == KeyIndex(d, all_concepts[n])
         IN IF i = 0 THEN Append(d, [key |-> all_concepts[n], val |-> 1])
            ELSE [d EXCEPT ![i].val = @ + 1]

RECURSIVE AllConcepts(_)
AllConcepts(memories) ==
    IF memories = <<>> THEN <<>> ELSE KeyConcepts(Head(memories)) \o AllConcepts(Tail(memories))

\* generate_memory_report, the try block
generate_memory_report_body(mm, researcher_id, t, g) ==
    LET memories == recall_paper_memories(mm, researcher_id, NonePid, 100)
        strengths == Strengths(memories, t)
        avg_strength == IF strengths # <<>> THEN SumSeq(strengths) \div Len(strengths) ELSE 0
        concept_freq == ConceptFreq(AllConcepts(memories))
        top_concepts == Take(SortDesc([i \in DOMAIN concept_freq |->
                                [k |-> concept_freq[i].val, v |-> concept_freq[i].key]]), 10)
        gaps == identify_memory_gaps(researcher_id, g)
    IN IF ~g.recall_ok
       THEN [exc |-> TRUE, ret |-> <<>>, mm |-> mm, calls |-> <<"recall_paper_memories!">>]
       ELSE IF gaps.exc
       THEN [exc |-> TRUE, ret |-> <<>>, mm |-> mm,
             calls |-> <<"recall_paper_memories">> \o gaps.calls]
       ELSE [exc |-> FALSE,
             ret |-> [researcher_id |-> researcher_id,
                      total_memories |-> Len(memories),
                      average_memory_strength |-> Round2(avg_strength),
                      strong_memories |-> CountWhere(strengths, LAMBDA s : s > 7000),
                      weak_memories |-> CountWhere(strengths, LAMBDA s : s < 3000),
                      unique_concepts |-> Len(concept_freq),
                      top_concepts |-> [i \in DOMAIN top_concepts |->
                                          [concept |-> top_concepts[i].v,
                                           frequency |-> top_concepts[i].k]],
                      knowledge_gaps |-> Take(gaps.ret, 5),
                      recommendations |-> _generate_recommendations(avg_strength, Len(gaps.ret))],
             mm |-> mm,
             calls |-> <<"recall_paper_memories">> \o gaps.calls]

\* generate_memory_report(researcher_id)
generate_memory_report(mm, researcher_id, t, g) ==
    Except(generate_memory_report_body(mm, researcher_id, t, g), ErrorDict)

-----------------------------------------------------------------------------
(* The graph reasoning engine: services/graph_reasoning.py.  g.session is   *)
(* the outcome of opening graph_service.driver.session, g.run, g.run1 and   *)
(* g.run2 the outcomes of the session.run calls.                            *)

\* analyze_research_gaps, the try block
analyze_research_gaps_body(research_area, g) ==
    LET missing == [i \in DOMAIN g.run1.v |->
                      [concept |-> g.run1.v[i].concept,
                       current_papers |-> g.run1.v[i].paper_count,
                       opportunity_score |-> SCALE - (g.run1.v[i].paper_count * SCALE) \div 10,
                       recommendation |-> <<research_area, g.run1.v[i].concept>>]]
        methods == [i \in DOMAIN g.run2.v |->
                      [method |-> g.run2.v[i].method,
                       status |-> "not_applied",
                       potential |-> "high",
                       recommendation |-> <<g.run2.v[i].method, research_area>>]]
    IN IF g.session.exc
       THEN [exc |-> TRUE, ret |-> <<>>, calls |-> <<"driver.session!">>]
       ELSE IF g.run1.exc
       THEN [exc |-> TRUE, ret |-> <<>>, calls |-> <<"driver.session", "session.run!">>]
       ELSE IF g.run2.exc
       THEN [exc |-> TRUE, ret |-> <<>>,
             calls |-> <<"driver.session", "session.run", "session.run!">>]
       ELSE [exc |-> FALSE,
             ret |-> [missing_connections |-> missing,
                      under_explored_methods |-> methods,
                      novel_combinations |-> <<>>],
             calls |-> <<"driver.session", "session.run", "session.run">>]

\* analyze_research_gaps(research_area)
analyze_research_gaps(research_area, g) ==
    Except(analyze_research_gaps_body(research_area, g), ErrorDict)

\* _predict_trajectory
_predict_trajectory(timeline, stage) ==
    IF stage = "emerging" THEN "Concept is new and gaining attention"
    ELSE IF stage = "rapid_growth" THEN "Expect continued strong growth in next 2-3 years"
    ELSE IF stage = "steady_growth" THEN "Stable research area with consistent output"
    ELSE IF stage = "mature" THEN "Well-established field, may plateau soon"
    ELSE "Declining interest, may be superseded by newer concepts"

\* round(n / d, 2) in fixed point, d > 0
Round2Ratio(n, d) == ((2 * 100 * n + d) \div (2 * d)) * (SCALE \div 100)

\* no floor for a timeline without an early year
TotalEarlyUnfloored(early_years) ==
    SumSeq([i \in DOMAIN early_years |-> early_years[i].papers])

\* sum(t["papers"] for t in early_years) if early_years else 1
TotalEarly(early_years) ==
    IF early_years # <<>>
    THEN SumSeq([i \in DOMAIN early_years |-> early_years[i].papers])
    ELSE 1

\* "emerging" only below two years
LifecycleStageFewer(n_years, total_recent, total_early) ==
    IF n_years < 2 THEN "emerging"
    ELSE IF total_early <= 0 THEN "declining"
    ELSE IF total_recent > 2 * total_early THEN "rapid_growth"
    ELSE IF total_recent > total_early THEN "steady_growth"
    ELSE IF 2 * total_recent > total_early THEN "mature"
    ELSE "declining"

\* the lifecycle stage: growth_rate = total_recent / total_early
LifecycleStage(n_years, total_recent, total_early) ==
    IF n_years < 3 THEN "emerging"
    ELSE IF total_early <= 0 THEN "declining"
    ELSE IF total_recent > 2 * total_early THEN "rapid_growth"
    ELSE IF total_recent > total_early THEN "steady_growth"
    ELSE IF 2 * total_recent > total_early THEN "mature"
    ELSE "declining"

\* track_concept_lifecycle, the try block
track_concept_lifecycle_body(concept, g) ==
    LET timeline == [i \in DOMAIN g.run.v |->
                        [year |-> g.run.v[i].year, papers |-> g.run.v[i].paper_count]]
        recent_years == SelectSeq(timeline, LAMBDA x : x.year >= 2020)
        early_years == SelectSeq(timeline, LAMBDA x : x.year < 2015)
        total_recent == SumSeq([i \in DOMAIN recent_years |-> recent_years[i].papers])
        total_early == TotalEarly(early_years)
        stage == LifecycleStage(Len(timeline), total_recent, total_early)
    IN IF g.session.exc
       THEN [exc |-> TRUE, ret |-> <<>>, calls |-> <<"driver.session!">>]
       ELSE IF g.run.exc
       THEN [exc |-> TRUE, ret |-> <<>>, calls |-> <<"driver.session", "session.run!">>]
       ELSE IF timeline = <<>>
       THEN [exc |-> FALSE, ret |-> [error |-> "No temporal data available"],
             calls |-> <<"driver.session", "session.run">>]
       ELSE [exc |-> FALSE,
             ret |-> [concept |-> concept,
                      first_appeared |-> timeline[1].year,
                      total_years |-> Len(timeline),
                      lifecycle_stage |-> stage,
                      growth_rate |-> IF total_early > 0
                                      THEN Round2Ratio(total_recent, total_early) ELSE 0,
                      timeline |-> timeline,
                      prediction |-> _predict_trajectory(timeline, stage)],
             calls |-> <<"driver.session", "session.run">>]

\* track_concept_lifecycle(concept)
track_concept_lifecycle(concept, g) == Except(track_concept_lifecycle_body(concept, g), ErrorDict)

\* floor of the square root
Isqrt(n) == CHOOSE r \in 0 .. n : r * r <= n /\ (r + 1) * (r + 1) > n

\* 1.0 / (distance ** 1.5) in fixed point, coarser beyond distance 6, which the
\* query's bound on the path length keeps out of reach; ZeroDivisionError at
\* distance 0, and a complex total that round() rejects below it
DecayFactor(distance) ==
    IF distance = 1 THEN Value(10000)
    ELSE IF distance = 2 THEN Value(3536)
    ELSE IF distance = 3 THEN Value(1925)
    ELSE IF distance = 4 THEN Value(1250)
    ELSE IF distance = 5 THEN Value(894)
    ELSE IF distance = 6 THEN Value(680)
    ELSE IF distance <= 0 THEN Raised
    ELSE Value(SCALE \div (distance * Isqrt(distance)))

\* influence_map[distance].append(...)
RECURSIVE InfluenceMap(_)
InfluenceMap(rows) ==
    IF rows = <<>> THEN <<>>
    ELSE LET n == Len(rows)
         IN AppendTo(InfluenceMap(SubSeq(rows, 1, n - 1)), rows[n].distance,
                     [paper_id |-> rows[n].citing_id, title |-> rows[n].title, year |-> rows[n].year])

\* calculate_influence_propagation, the try block
calculate_influence_propagation_body(paper_id, max_depth, g) ==
    LET influence_map == InfluenceMap(g.run.v)
        decays == [i \in DOMAIN influence_map |-> DecayFactor(influence_map[i].key)]
        total_influence == SumSeq([i \in DOMAIN influence_map |->
                                      Len(influence_map[i].val) * decays[i].v])
        direct == KeyIndex(influence_map, 1)
        depths == {influence_map[i].key : i \in DOMAIN influence_map}
    IN IF g.session.exc
       THEN [exc |-> TRUE, ret |-> <<>>, calls |-> <<"driver.session!">>]
       ELSE IF g.run.exc \/ (\E i \in DOMAIN decays : decays[i].exc)
       THEN [exc |-> TRUE, ret |-> <<>>,
             calls |-> <<"driver.session", IF g.run.exc THEN "session.run!" ELSE "session.run">>]
       ELSE [exc |-> FALSE,
             ret |-> [paper_id |-> paper_id,
                      direct_citations |-> IF direct = 0 THEN 0 ELSE Len(influence_map[direct].val),
                      indirect_citations |->
                          SumSeq([i \in DOMAIN influence_map |->
                                    IF influence_map[i].key > 1 THEN Len(influence_map[i].val)
                                    ELSE 0]),
                      influence_score |-> Round2(total_influence),
                      max_depth_reached |-> IF depths = {} THEN 0
                                            ELSE CHOOSE d \in depths : \A e \in depths : e <= d,
                      influence_by_distance |->
                          [i \in DOMAIN influence_map |->
                              [depth |-> influence_map[i].key, n |-> Len(influence_map[i].val)]]],
             calls |-> <<"driver.session", "session.run">>]

\* calculate_influence_propagation(paper_id, max_depth=3)
calculate_influence_propagation(paper_id, max_depth, g) ==
    Except(calculate_influence_propagation_body(paper_id, max_depth, g), ErrorDict)

\* only an empty list is too short
TooFewConceptsEmpty(concepts) == Len(concepts) < 1

\* if len(concepts) < 2
TooFewConcepts(concepts) == Len(concepts) < 2

\* shared methods only when no paper combines the concepts
SynthesisPathsEither(existing, methodological) ==
    IF existing # <<>> THEN existing ELSE methodological

\* synthesis_paths after both loops have appended to it
SynthesisPaths(existing, methodological) == existing \o methodological

\* find_synthesis_paths, the try block
find_synthesis_paths_body(concepts, g) ==
    LET existing == [i \in DOMAIN g.run1.v |->
                        [type |-> "existing_synthesis",
                         paper_id |-> g.run1.v[i].paper_id,
                         title |-> g.run1.v[i].title,
                         year |-> g.run1.v[i].year,
                         concepts_combined |-> concepts,
                         novelty |-> "low"]]
        methodological == [i \in DOMAIN g.run2.v |->
                        [type |-> "methodological_synthesis",
                         shared_method |-> g.run2.v[i].method,
                         concepts_covered |-> g.run2.v[i].covered_concepts,
                         novelty |-> "medium",
                         recommendation |-> <<g.run2.v[i].method, concepts>>]]
    IN IF TooFewConcepts(concepts)
       THEN [exc |-> FALSE, ret |-> <<>>, calls |-> <<>>]
       ELSE IF g.session.exc
       THEN [exc |-> TRUE, ret |-> <<>>, calls |-> <<"driver.session!">>]
       ELSE IF g.run1.exc
       THEN [exc |-> TRUE, ret |-> <<>>, calls |-> <<"driver.session", "session.run!">>]
       ELSE IF g.run2.exc
       THEN [exc |-> TRUE, ret |-> <<>>,
             calls |-> <<"driver.session", "session.run", "session.run!">>]
       ELSE [exc |-> FALSE, ret |-> SynthesisPaths(existing, methodological),
             calls |-> <<"driver.session", "session.run", "session.run">>]

\* find_synthesis_paths(concepts)
find_synthesis_paths(concepts, g) == Except(find_synthesis_paths_body(concepts, g), <<>>)

\* collab_graph[a].add(b)
AddTo(d, key, member) ==
    LET i == KeyIndex(d, key)
    IN IF i = 0 THEN Append(d, [key |-> key, val |-> {member}])
       ELSE [d EXCEPT ![i].val = @ \cup {member}]

\* collab_graph over the rows: both directions of every pair
RECURSIVE CollabGraph(_)
CollabGraph(rows) ==
    IF rows = <<>> THEN <<>>
    ELSE LET n == Len(rows)
             d == CollabGraph(SubSeq(rows, 1, n - 1))
         IN AddTo(AddTo(d, rows[n].author1, rows[n].author2), rows[n].author2, rows[n].author1)

\* no collaborator is followed
NeighboursNone(graph, node) == {}

\* graph.get(node, set())
Neighbours(graph, node) ==
    LET i == KeyIndex(graph, node) IN IF i = 0 THEN {} ELSE graph[i].val

\* _bfs_community: the nodes reached from the queue that are not in visited
RECURSIVE _bfs_community(_, _, _)
_bfs_community(queue, graph, visited) ==
    IF queue = <<>> THEN {}
    ELSE LET node == Head(queue)
         IN IF node \in visited THEN _bfs_community(Tail(queue), graph, visited)
            ELSE LET fresh == {x \in Neighbours(graph, node) : x \notin visited \cup {node}}
                     order == CHOOSE s \in [1 .. Cardinality(fresh) -> fresh] :
                                  \A x \in fresh : \E i \in DOMAIN s : s[i] = x
                 IN {node} \cup _bfs_community(Tail(queue) \o order, graph, visited \cup {node})

\* the loop over collab_graph: one community per unvisited author
RECURSIVE Communities(_, _, _, _)
Communities(graph, i, visited, min_community_size) ==
    IF i > Len(graph) THEN <<>>
    ELSE IF graph[i].key \in visited
    THEN Communities(graph, i + 1, visited, min_community_size)
    ELSE LET community == _bfs_community(<<graph[i].key>>, graph, visited)
             rest == Communities(graph, i + 1, visited \cup community, min_community_size)
         IN IF Cardinality(community) >= min_community_size
            THEN <<[type |-> "author_collaboration",
                    members |-> community,
                    size |-> Cardinality(community),
                    cohesion |-> "high"]>> \o rest
            ELSE rest

\* detect_research_communities, the try block
detect_research_communities_body(min_community_size, g) ==
    IF g.session.exc
    THEN [exc |-> TRUE, ret |-> <<>>, calls |-> <<"driver.session!">>]
    ELSE IF g.run.exc
    THEN [exc |-> TRUE, ret |-> <<>>, calls |-> <<"driver.session", "session.run!">>]
    ELSE [exc |-> FALSE,
          ret |-> Communities(CollabGraph(g.run.v), 1, {}, min_community_size),
          calls |-> <<"driver.session", "session.run">>]

\* the handler of the record-returning operations in the place of `return []`
detect_research_communitiesError(min_community_size, g) ==
    Except(detect_research_communities_body(min_community_size, g), ErrorDict)

\* detect_research_communities(min_community_size=3)
detect_research_communities(min_community_size, g) ==
    Except(detect_research_communities_body(min_community_size, g), <<>>)

-----------------------------------------------------------------------------
(* The fusion layer: services/memory_graph_fusion.py.  A python set is      *)
(* iterated in an order the program does not fix: g.order is that order.    *)

\* the log of a run of calls of one capability method: it ends at the first that raises
RECURSIVE CallsUntil(_, _)
CallsUntil(outcomes, name) ==
    IF outcomes = <<>> THEN <<>>
    ELSE IF Head(outcomes).exc THEN <<name \o "!">>
    ELSE <<name>> \o CallsUntil(Tail(outcomes), name)

AnyExc(outcomes) == \E i \in DOMAIN outcomes : outcomes[i].exc

\* _strength_to_mastery
_strength_to_mastery(strength) ==
    IF strength > 8000 THEN "expert"
    ELSE IF strength > 6000 THEN "proficient"
    ELSE IF strength > 4000 THEN "familiar"
    ELSE "novice"

\* concept_strengths[concept] = max(concept_strengths[concept], strength)
RECURSIVE MaxInto(_, _, _)
MaxInto(d, keys, strength) ==
    IF keys = <<>> THEN d
    ELSE LET i == KeyIndex(d, Head(keys))
             d2 == IF i = 0 THEN Append(d, [key |-> Head(keys), val |-> strength])
                   ELSE [d EXCEPT ![i].val = Max(@, strength)]
         IN MaxInto(d2, Tail(keys), strength)

RECURSIVE ConceptStrengths(_, _)
ConceptStrengths(memories, t) ==
    IF memories = <<>> THEN <<>>
    ELSE LET n == Len(memories)
         IN MaxInto(ConceptStrengths(SubSeq(memories, 1, n - 1), t), KeyConcepts(memories[n]),
                    calculate_memory_strength(memories[n], Now(t)).v)

\* the pairs (i, j), i < j, in the order of the nested loops
RECURSIVE PairsFrom(_, _, _)
PairsFrom(n, i, j) ==
    IF i > n THEN <<>>
    ELSE IF j > n THEN PairsFrom(n, i + 1, i + 2)
    ELSE <<[i |-> i, j |-> j]>> \o PairsFrom(n, i, j + 1)

\* personalized_graph_view, the try block
personalized_graph_view_body(mm, researcher_id, t, g) ==
    LET memories == recall_paper_memories(mm, researcher_id, NonePid, 50)
        cs == ConceptStrengths(memories, t)
        concept_nodes == [i \in DOMAIN cs |->
                            [id |-> cs[i].key,
                             type |-> "concept",
                             memory_strength |-> cs[i].val,
                             mastery_level |-> _strength_to_mastery(cs[i].val),
                             size |-> cs[i].val * 100]]
        paper_nodes == [i \in DOMAIN g.papers.v |->
                            [id |-> Get(g.papers.v[i], "paper_id", NonePid),
                             type |-> "paper",
                             title |-> Get(g.papers.v[i], "title", "None"),
                             read |-> TRUE]]
        pairs == PairsFrom(Len(cs), 1, 2)
        bridge_calls == [i \in DOMAIN pairs |-> g.bridges]
        edges == IF g.bridges.v = <<>> THEN <<>>
                 ELSE [i \in DOMAIN pairs |->
                         [source |-> cs[pairs[i].i].key,
                          target |-> cs[pairs[i].j].key,
                          weight |-> (cs[pairs[i].i].val + cs[pairs[i].j].val) \div 2,
                          bridge_concepts |-> Take(g.bridges.v, 3)]]
        strengths == [i \in DOMAIN cs |-> cs[i].val]
    IN IF ~g.recall_ok
       THEN [exc |-> TRUE, ret |-> <<>>, mm |-> mm, calls |-> <<"recall_paper_memories!">>]
       ELSE IF g.papers.exc
       THEN [exc |-> TRUE, ret |-> <<>>, mm |-> mm,
             calls |-> <<"recall_paper_memories", "get_researcher_papers!">>]
       ELSE IF AnyExc(bridge_calls)
       THEN [exc |-> TRUE, ret |-> <<>>, mm |-> mm,
             calls |-> <<"recall_paper_memories", "get_researcher_papers">>
                       \o CallsUntil(bridge_calls, "find_bridge_concepts")]
       ELSE [exc |-> FALSE,
             ret |-> [researcher_id |-> researcher_id,
                      nodes |-> concept_nodes \o paper_nodes,
                      edges |-> edges,
                      graph_statistics |->
                          [total_concepts |-> Len(cs),
                           strong_concepts |-> CountWhere(strengths, LAMBDA s : s > 7000),
                           weak_concepts |-> CountWhere(strengths, LAMBDA s : s < 3000),
                           papers_read |-> Len(g.papers.v)]],
             mm |-> mm,
             calls |-> <<"recall_paper_memories", "get_researcher_papers">>
                       \o CallsUntil(bridge_calls, "find_bridge_concepts")]

\* personalized_graph_view(researcher_id)
personalized_graph_view(mm, researcher_id, t, g) ==
    Except(personalized_graph_view_body(mm, researcher_id, t, g), ErrorDict)

\* _find_distant_concepts, the try block
_find_distant_concepts_body(concept, hops, g) ==
    IF g.session.exc
    THEN [exc |-> TRUE, ret |-> <<>>, calls |-> <<"driver.session!">>]
    ELSE IF g.run.exc
    THEN [exc |-> TRUE, ret |-> <<>>, calls |-> <<"driver.session", "session.run!">>]
    ELSE [exc |-> FALSE,
          ret |-> [i \in DOMAIN g.run.v |-> <<g.run.v[i].distant_concept, g.run.v[i].path_nodes>>],
          calls |-> <<"driver.session", "session.run">>]

\* _find_distant_concepts(concept, hops=3)
_find_distant_concepts(concept, hops, g) ==
    Except(_find_distant_concepts_body(concept, hops, g), <<>>)

KnownConcepts(memories) == {AllConcepts(memories)[i] : i \in DOMAIN AllConcepts(memories)}

\* the orders in which a set may be iterated
Orders(S) ==
    {s \in [1 .. Cardinality(S) -> S] : \A x \in S : \E i \in DOMAIN s : s[i] = x}

\* the discoveries of one known concept
DistantDiscoveries(concept, known_concepts, g) ==
    LET distant == Take(_find_distant_concepts(concept, 3, g.distant).ret, 3)
        fresh == SelectSeq(distant, LAMBDA d : d[1] \notin known_concepts)
    IN [i \in DOMAIN fresh |->
          [type |-> "distant_connection",
           known_concept |-> concept,
           discovered_concept |-> fresh[i][1],
           path |-> fresh[i][2],
           serendipity_score |-> 8000]]

RECURSIVE FlattenSeq(_)
FlattenSeq(ss) == IF ss = <<>> THEN <<>> ELSE Head(ss) \o FlattenSeq(Tail(ss))

DiscoveryDomains == <<"machine learning", "neuroscience", "physics", "biology">>

\* the cross-domain discovery of one domain, <<>> when there is none
DomainDiscovery(domain, memories, order, g) ==
    LET read == {PaperIdOf(memories[i]) : i \in DOMAIN memories}
        has_domain == \E i \in DOMAIN g.domain.v :
                          Get(g.domain.v[i], "paper_id", NonePid) \in read
        analogies == find_analogies(order[1], domain, 1, g.analogy)
    IN IF has_domain \/ order = <<>> THEN [exc |-> FALSE, ret |-> <<>>, calls |-> <<>>]
       ELSE IF analogies.exc THEN [exc |-> TRUE, ret |-> <<>>, calls |-> analogies.calls]
       ELSE IF analogies.ret = <<>> THEN [exc |-> FALSE, ret |-> <<>>, calls |-> analogies.calls]
       ELSE [exc |-> FALSE,
             ret |-> <<[type |-> "cross_domain",
                        your_domain |-> order[1],
                        new_domain |-> domain,
                        analogy |-> analogies.ret[1],
                        serendipity_score |-> 9000]>>,
             calls |-> analogies.calls]

\* serendipitous_discovery, the try block
serendipitous_discovery_body(mm, researcher_id, g) ==
    LET memories == recall_paper_memories(mm, researcher_id, NonePid, 30)
        known_concepts == KnownConcepts(memories)
        first5 == Take(g.order, 5)
        distant == FlattenSeq([i \in DOMAIN first5 |->
                                  DistantDiscoveries(first5[i], known_concepts, g)])
        distant_calls == FlattenSeq([i \in DOMAIN first5 |->
                                  _find_distant_concepts(first5[i], 3, g.distant).calls])
        distant_exc == \E i \in DOMAIN first5 : _find_distant_concepts(first5[i], 3, g.distant).exc
        per_domain == [i \in DOMAIN DiscoveryDomains |->
                          DomainDiscovery(DiscoveryDomains[i], memories, g.order, g)]
        cross == FlattenSeq([i \in DOMAIN per_domain |-> per_domain[i].ret])
        cross_calls == FlattenSeq([i \in DOMAIN per_domain |->
                                    <<"get_related_papers">> \o per_domain[i].calls])
    IN IF ~g.recall_ok
       THEN [exc |-> TRUE, ret |-> <<>>, mm |-> mm, calls |-> <<"recall_paper_memories!">>]
       ELSE IF distant_exc
       THEN [exc |-> TRUE, ret |-> <<>>, mm |-> mm,
             calls |-> <<"recall_paper_memories">> \o distant_calls]
       ELSE IF g.domain.exc
       THEN [exc |-> TRUE, ret |-> <<>>, mm |-> mm,
             calls |-> <<"recall_paper_memories">> \o distant_calls \o <<"get_related_papers!">>]
       ELSE IF AnyExc(per_domain)
       THEN [exc |-> TRUE, ret |-> <<>>, mm |-> mm,
             calls |-> <<"recall_paper_memories">> \o distant_calls \o cross_calls]
       ELSE [exc |-> FALSE, ret |-> distant \o cross, mm |-> mm,
             calls |-> <<"recall_paper_memories">> \o distant_calls \o cross_calls]

\* serendipitous_discovery(researcher_id)
serendipitous_discovery(mm, researcher_id, g) ==
    Except(serendipitous_discovery_body(mm, researcher_id, g), <<>>)

\* research_intuition, the try block
research_intuition_body(mm, researcher_id, current_context, g) ==
    LET memories == recall_paper_memories(mm, researcher_id, NonePid, 50)
        concept_frequency == ConceptFreq(AllConcepts(memories))
        frequent == SelectSeq(concept_frequency, LAMBDA e : e.val >= 3)
        intuitive_concepts == [i \in DOMAIN frequent |-> frequent[i].key]
        alignment == \E i \in DOMAIN intuitive_concepts :
                        IsInfix(Words(intuitive_concepts[i]), Words(current_context))
        intuition ==
            IF alignment
            THEN [confidence |-> "high",
                  feeling |-> "This aligns well with your expertise",
                  reasoning |-> Take(intuitive_concepts, 3),
                  suggestion |-> "Trust your instincts and dive deeper"]
            ELSE [confidence |-> "exploratory",
                  feeling |-> "This is outside your comfort zone",
                  reasoning |-> <<>>,
                  suggestion |-> "Approach with curiosity, build foundational knowledge first"]
        gaps == identify_memory_gaps(researcher_id, g)
    IN IF ~g.recall_ok
       THEN [exc |-> TRUE, ret |-> <<>>, mm |-> mm, calls |-> <<"recall_paper_memories!">>]
       ELSE IF gaps.exc
       THEN [exc |-> TRUE, ret |-> <<>>, mm |-> mm,
             calls |-> <<"recall_paper_memories">> \o gaps.calls]
       ELSE [exc |-> FALSE,
             ret |-> IF gaps.ret # <<>>
                     THEN [warning |-> gaps.ret[1].concept] @@ intuition
                     ELSE intuition,
             mm |-> mm,
             calls |-> <<"recall_paper_memories">> \o gaps.calls]

\* research_intuition(researcher_id, current_context)
research_intuition(mm, researcher_id, current_context, g) ==
    Except(research_intuition_body(mm, researcher_id, current_context, g), ErrorDict)

\* the level follows the branches of the recommendation
LoadLevelAsAdvised(papers_today) ==
    IF papers_today > 5 THEN "high"
    ELSE IF papers_today = 0 THEN "optimal"
    ELSE "moderate"

\* "high" if papers_today > 5 else "optimal" if papers_today <= 3 else "moderate"
LoadLevel(papers_today) ==
    IF papers_today > 5 THEN "high"
    ELSE IF papers_today <= 3 THEN "optimal"
    ELSE "moderate"

\* the recommendations of cognitive_load_optimizer
LoadRecommendations(papers_today, weak_memories) ==
    (IF papers_today > 5
     THEN <<[type |-> "overload_warning"]>>
     ELSE IF papers_today = 0 THEN <<[type |-> "engagement"]>> ELSE <<>>)
    \o (IF Len(weak_memories) > 10
        THEN <<[type |-> "review_needed",
                n |-> Len(weak_memories),
                papers_to_review |->
                    [i \in DOMAIN Take(weak_memories, 5) |->
                        Get(Get(weak_memories[i], "content", EmptyDict), "title", "None")]]>>
        ELSE <<>>)

\* cognitive_load_optimizer, the try block
cognitive_load_optimizer_body(mm, researcher_id, t, g) ==
    LET recent_memories == get_recent_context(mm, researcher_id, 24)
        papers_today == CountWhere(recent_memories,
                            LAMBDA m : Get(Get(m, "content", EmptyDict), "type", "None")
                                       = "paper_reading")
        all_memories == recall_paper_memories(mm, researcher_id, NonePid, 50)
        weak_memories == SelectSeq(all_memories,
                            LAMBDA m : calculate_memory_strength(m, Now(t)).v < 4000)
    IN IF ~g.recent_ok
       THEN [exc |-> TRUE, ret |-> <<>>, mm |-> mm, calls |-> <<"get_recent_context!">>]
       ELSE IF ~g.recall_ok
       THEN [exc |-> TRUE, ret |-> <<>>, mm |-> mm,
             calls |-> <<"get_recent_context", "recall_paper_memories!">>]
       ELSE [exc |-> FALSE,
             ret |-> [current_load |-> [papers_today |-> papers_today,
                                        load_level |-> LoadLevel(papers_today)],
                      memory_health |-> [total_memories |-> Len(all_memories),
                                         weak_memories |-> Len(weak_memories),
                                         needs_review |-> Len(weak_memories) > 10],
                      recommendations |-> LoadRecommendations(papers_today, weak_memories),
                      optimal_schedule |-> [papers_per_day |-> 3,
                                            review_frequency |-> "every 3 days",
                                            deep_reading_time |-> "morning",
                                            review_time |-> "evening"]],
             mm |-> mm,
             calls |-> <<"get_recent_context", "recall_paper_memories">>]

\* cognitive_load_optimizer(researcher_id)
cognitive_load_optimizer(mm, researcher_id, t, g) ==
    Except(cognitive_load_optimizer_body(mm, researcher_id, t, g), ErrorDict)

Infinity == 1000000

\* a path as short as the shortest so far also replaces it
NearerOrEqual(paths, min_distance) ==
    paths # <<>> /\ paths[1].path_length <= min_distance

\* paths and paths[0]["path_length"] < min_distance
Nearer(paths, min_distance) ==
    paths # <<>> /\ paths[1].path_length < min_distance

\* the loop that looks for the known concept closest to the target:
\* [closest, min_distance, exc, calls] after the concepts of order
RECURSIVE Closest(_, _)
Closest(order, g) ==
    IF order = <<>> THEN [closest |-> "None", min_distance |-> Infinity, exc |-> FALSE,
                          calls |-> <<>>]
    ELSE LET n == Len(order)
             before == Closest(SubSeq(order, 1, n - 1), g)
             paths == g.conn[order[n]]
         IN IF before.exc THEN before
            ELSE IF paths.exc
            THEN [before EXCEPT !.exc = TRUE, !.calls = @ \o <<"find_connections!">>]
            ELSE IF Nearer(paths.v, before.min_distance)
            THEN [closest |-> order[n], min_distance |-> paths.v[1].path_length,
                  exc |-> FALSE, calls |-> before.calls \o <<"find_connections">>]
            ELSE [before EXCEPT !.calls = @ \o <<"find_connections">>]

\* "easy" if i < 2 else "medium" if i < 4 else "hard", i counted from 0
Difficulty(i) == IF i < 2 THEN "easy" ELSE IF i < 4 THEN "medium" ELSE "hard"

\* the steps of a path: one for each node the researcher does not know
LearningSteps(nodes, known_concepts) ==
    LET idx == SelectSeq([i \in DOMAIN nodes |-> i], LAMBDA i : nodes[i] \notin known_concepts)
    IN [k \in DOMAIN idx |->
          [step |-> idx[k],
           concept |-> nodes[idx[k]],
           difficulty |-> Difficulty(idx[k] - 1),
           estimated_time |-> idx[k] * 2]]

\* python truthiness of a concept name
TruthyStr(s) == s \notin {"None", ""}

\* every known concept is asked for
SampledConceptsAll(order) == order

\* list(known_concepts)[:10]
SampledConcepts(order) == Take(order, 10)

\* learning_path_generator, the try block
learning_path_generator_body(mm, researcher_id, target_concept, g) ==
    LET memories == recall_paper_memories(mm, researcher_id, NonePid, 30)
        known_concepts == KnownConcepts(memories)
        found == Closest(SampledConcepts(g.order), g)
        learning_steps == LearningSteps(g.conn2.v[1].nodes, known_concepts)
    IN IF ~g.recall_ok
       THEN [exc |-> TRUE, ret |-> <<>>, mm |-> mm, calls |-> <<"recall_paper_memories!">>]
       ELSE IF found.exc
       THEN [exc |-> TRUE, ret |-> <<>>, mm |-> mm,
             calls |-> <<"recall_paper_memories">> \o found.calls]
       ELSE IF ~TruthyStr(found.closest)
       THEN [exc |-> FALSE,
             ret |-> [error |-> "No learning path found",
                      suggestion |-> "Start with foundational papers in this area"],
             mm |-> mm, calls |-> <<"recall_paper_memories">> \o found.calls]
       ELSE IF g.conn2.exc
       THEN [exc |-> TRUE, ret |-> <<>>, mm |-> mm,
             calls |-> <<"recall_paper_memories">> \o found.calls \o <<"find_connections!">>]
       ELSE IF g.conn2.v = <<>>
       THEN [exc |-> FALSE, ret |-> [error |-> "No path found"], mm |-> mm,
             calls |-> <<"recall_paper_memories">> \o found.calls \o <<"find_connections">>]
       ELSE [exc |-> FALSE,
             ret |-> [target_concept |-> target_concept,
                      starting_point |-> found.closest,
                      total_steps |-> Len(learning_steps),
                      estimated_duration |-> Len(learning_steps) * 2,
                      learning_path |-> learning_steps,
                      difficulty_level |-> "progressive",
                      success_probability |-> IF Len(learning_steps) < 5 THEN 8000 ELSE 6000],
             mm |-> mm,
             calls |-> <<"recall_paper_memories">> \o found.calls \o <<"find_connections">>]

\* learning_path_generator(researcher_id, target_concept)
learning_path_generator(mm, researcher_id, target_concept, g) ==
    Except(learning_path_generator_body(mm, researcher_id, target_concept, g), ErrorDict)

-----------------------------------------------------------------------------
(* The world the calls run in: what is ingested, what the graph answers *)

\* a paper row of the graph
Paper(p) == [paper_id |-> p, title |-> p]

\* the concepts extracted from each paper at ingest
PaperConcepts == [p \in {"p1", "p2", "p3"} |->
                    IF p = "p1" THEN <<"c1", "c2">>
                    ELSE IF p = "p2" THEN <<"c2", "c1">>
                    ELSE <<"c3">>]

PaperData(p) == [title |-> p, concepts |-> PaperConcepts[p]]

IngestPapers == {"p1", "p2"}

Topics == { <<"machine", "learning">>, <<"genomics">> }

\* get_researcher_papers: it raises, or returns the reading history
PastOutcomes == {Fails, Rows(<<>>), Rows(<<Paper("p1")>>)}

\* get_related_papers: it raises, or returns candidates
CandidateOutcomes ==
    {Fails, Rows(<<>>), Rows(<<Paper("p1"), Paper("p2")>>),
     Rows(<<Paper("p2"), Paper("p3"), Paper("p1")>>)}

CitationRow == [citing_paper |-> "p1", citing_title |-> "p1",
                cited_paper |-> "p2", cited_title |-> "p2"]

\* the graph calls of detect_contradictions
ContradictionOutcomes ==
    {[src |-> Fails, run |-> Fails],
     [src |-> Rows(<<>>), run |-> Fails],
     [src |-> Rows(<<>>), run |-> Rows(<<>>)],
     [src |-> Rows(<<>>), run |-> Rows(<<CitationRow>>)]}

MethodRow == [method |-> "m1", source_papers |-> <<"p1">>, target_papers |-> <<"p2">>]

\* the graph calls of find_analogies
AnalogyOutcomes ==
    {[src |-> Fails, tgt |-> Fails, run |-> Fails, bridges |-> Fails],
     [src |-> Rows(<<>>), tgt |-> Rows(<<>>), run |-> Fails, bridges |-> Fails],
     [src |-> Rows(<<>>), tgt |-> Rows(<<>>), run |-> Rows(<<MethodRow>>), bridges |-> Fails],
     [src |-> Rows(<<>>), tgt |-> Rows(<<>>), run |-> Rows(<<>>), bridges |-> Fails],
     [src |-> Rows(<<>>), tgt |-> Rows(<<>>), run |-> Rows(<<>>), bridges |-> Rows(<<"b1", "b2", "b3">>)]}

\* what the graph answers for the three domains of the hypothesis generator
AnalogyWorlds ==
    {[i \in 1 .. 3 |-> o] : o \in AnalogyOutcomes}
    \cup {[i \in 1 .. 3 |-> IF i = 2
                           THEN [src |-> Rows(<<>>), tgt |-> Rows(<<>>),
                                 run |-> Rows(<<MethodRow, MethodRow>>), bridges |-> Fails]
                           ELSE [src |-> Rows(<<>>), tgt |-> Rows(<<>>),
                                 run |-> Rows(<<MethodRow>>), bridges |-> Fails]]}

RECURSIVE SumLen(_, _)
SumLen(mm, users) ==
    IF users = {} THEN 0
    ELSE LET u == CHOOSE x \in users : TRUE
         IN Len(mm[u]) + SumLen(mm, users \ {u})

\* number of records in the store
TotalRecords(mm) == SumLen(mm, DOMAIN mm)

-----------------------------------------------------------------------------
(* The strength probe *)

NotEvaluated == [exc |-> FALSE, v |-> 0 - 1]

ProbeIdle ==
    /\ smem = EmptyDict
    /\ snow = [aware |-> FALSE, day |-> 0]
    /\ sout = NotEvaluated
    /\ snow2 = [aware |-> FALSE, day |-> 0]
    /\ sout2 = NotEvaluated
    /\ sac3 = 1
    /\ sout3 = NotEvaluated

\* the function probe before an evaluation
NotApplied == [fn |-> "none"]

PureIdle ==
    /\ pin = NotApplied
    /\ pout = NotApplied

\* the threads that run concurrent calls
Threads == {1, 2}

IdleThread == [pc |-> "idle", kind |-> "none", r |-> "none", left |-> 0, missing |-> FALSE,
               id |-> 0, seen |-> 0]

ConcIdle ==
    /\ threads = [t \in Threads |-> IdleThread]
    /\ acked = {}

-----------------------------------------------------------------------------
(* Specification: ingest, clock, and collaborative_research phase by phase *)

NoResult == [of |-> "none", exc |-> FALSE, ret |-> <<>>]

\* state after construction of the module-level services
\* (MockMemoryService.__init__, MockGraphService.__init__) with no call in flight
MainInit ==
    /\ mock_memories = EmptyDict
    /\ mock_data = EmptyDict
    /\ heap = <<>>
    /\ now = 0
    /\ reserved = 0
    /\ pc = "idle"
    /\ rid = "none"
    /\ topic = <<>>
    /\ len0 = 0
    /\ arg = <<>>
    /\ raised = FALSE
    /\ papers = <<>>
    /\ paper_ids = <<>>
    /\ patterns = <<>>
    /\ hypotheses = <<>>
    /\ refined = <<>>
    /\ op = "init"
    /\ result = NoResult
    /\ calls = <<>>
    /\ put_log = EmptyDict

Init == MainInit /\ ProbeIdle /\ ConcIdle /\ PureIdle

\* the days at which calls are made
ClockDays == {0, MaxNow}

\* what the model keeps of the call made last: its researcher, its argument,
\* the length of the researcher's list when it was made
CalledWith(r, a) ==
    /\ rid' = r
    /\ arg' = a
    /\ len0' = Len(Memories(mock_memories, r))

\* main.py upload_paper: memory_service.store_paper_memory, on day t
StorePaperAt(r, p, t, bound) ==
    /\ pc = "idle"
    /\ reserved + 1 <= bound
    /\ reserved' = reserved + 1
    /\ t >= now
    /\ now' = t
    /\ mock_memories' = store_paper_memory(mock_memories, r, p, PaperData(p), t)
    /\ put_log' = LogPuts(put_log, mock_memories', heap)
    /\ op' = "store_paper_memory"
    /\ result' = [of |-> "store_paper_memory", exc |-> FALSE,
                  ret |-> [id |-> Len(mock_memories'[r]), status |-> "success"]]
    /\ calls' = <<>>
    /\ CalledWith(r, p)
    /\ topic' = <<>>
    /\ raised' = FALSE
    /\ UNCHANGED <<mock_data, heap, pc, papers, paper_ids, patterns, hypotheses, refined>>
    /\ UNCHANGED sideVars

StorePaper(r, p) == StorePaperAt(r, p, now, MaxMem)

\* collaborative_research is called
StartResearch(r, tp) ==
    /\ pc = "idle"
    /\ reserved + 4 <= MaxMem
    /\ reserved' = reserved + 4
    /\ pc' = "scout"
    /\ CalledWith(r, tp)
    /\ topic' = tp
    /\ raised' = FALSE
    /\ papers' = <<>>
    /\ paper_ids' = <<>>
    /\ patterns' = <<>>
    /\ hypotheses' = <<>>
    /\ refined' = <<>>
    /\ op' = "collaborative_research"
    /\ result' = NoResult
    /\ calls' = <<>>
    /\ UNCHANGED <<mock_memories, mock_data, heap, now, put_log>>
    /\ UNCHANGED sideVars

\* whether the log of a step holds a call that raised
FailedCalls == {"get_researcher_papers!", "get_related_papers!", "recall_paper_memories!",
                "session.run!", "find_bridge_concepts!", "store_memory!", "driver.session!",
                "search_memories!", "get_recent_context!", "get_emerging_concepts!",
                "find_connections!"}

AnyFailed(log) == \E i \in DOMAIN log : log[i] \in FailedCalls

\* a phase returned to collaborative_research
Returned(phase, value) == [of |-> phase, exc |-> FALSE, ret |-> value]

\* argument handed to the spotter, a copy of it mangled
SpotterInputTail(ps) == [i \in 1 .. (Len(ps) - 1) |-> ps[i + 1].paper_id]

\* paper_ids = [p["paper_id"] for p in papers]
SpotterInput(ps) == [i \in DOMAIN ps |-> ps[i].paper_id]

\* collaborative_research returns: its locals die with the frame
Return(res) ==
    /\ pc' = "idle"
    /\ result' = [of |-> "collaborative_research"] @@ res
    /\ papers' = <<>>
    /\ paper_ids' = <<>>
    /\ patterns' = <<>>
    /\ hypotheses' = <<>>
    /\ refined' = <<>>

\* an exception reached the try of collaborative_research: return {"error": str(e)}
Abort == Return(Except([exc |-> TRUE, ret |-> <<>>], ErrorDict))

\* Phase 1: papers = self.scout.scout_papers(...); paper_ids = [p["paper_id"] for p in papers]
ScoutPhase ==
    /\ pc = "scout"
    /\ \E past \in PastOutcomes, cand \in CandidateOutcomes, ok \in BOOLEAN :
          LET r == scout_papers(mock_memories, rid, topic, now,
                                [past |-> past, candidates |-> cand, put_ok |-> ok])
          IN /\ mock_memories' = r.mm
             /\ calls' = r.calls
             /\ raised' = (raised \/ AnyFailed(r.calls))
             /\ arg' = topic
             /\ IF r.exc
                THEN Abort
                ELSE /\ papers' = r.ret
                     /\ paper_ids' = SpotterInput(r.ret)
                     /\ pc' = "spot"
                     /\ result' = Returned("scout_papers", r.ret)
                     /\ UNCHANGED <<patterns, hypotheses, refined>>
    /\ put_log' = LogPuts(put_log, mock_memories', heap)
    /\ op' = "scout_papers"
    /\ UNCHANGED <<mock_data, heap, now, reserved, rid, topic, len0>>
    /\ UNCHANGED sideVars

\* Phase 2: patterns = self.spotter.spot_patterns(researcher_id, paper_ids)
SpotPhase ==
    /\ pc = "spot"
    /\ \E rok \in BOOLEAN, con \in ContradictionOutcomes, ok \in BOOLEAN :
          LET r == spot_patterns(mock_memories, rid, paper_ids, now,
                                 [recall_ok |-> rok, contradictions |-> con, put_ok |-> ok])
          IN /\ mock_memories' = r.mm
             /\ calls' = r.calls
             /\ raised' = (raised \/ AnyFailed(r.calls))
             /\ arg' = paper_ids
             /\ IF r.exc
                THEN Abort
                ELSE /\ patterns' = r.ret
                     /\ pc' = "generate"
                     /\ result' = Returned("spot_patterns", r.ret)
                     /\ UNCHANGED <<papers, paper_ids, hypotheses, refined>>
    /\ put_log' = LogPuts(put_log, mock_memories', heap)
    /\ op' = "spot_patterns"
    /\ UNCHANGED <<mock_data, heap, now, reserved, rid, topic, len0>>
    /\ UNCHANGED sideVars

\* Phase 3: hypotheses = self.generator.generate_creative_hypotheses(...)
GeneratePhase ==
    /\ pc = "generate"
    /\ \E w \in AnalogyWorlds, ok \in BOOLEAN :
          LET r == generate_creative_hypotheses(mock_memories, heap, rid, topic, patterns, now,
                                                [analogy |-> w, put_ok |-> ok])
          IN /\ mock_memories' = r.mm
             /\ heap' = r.hp
             /\ calls' = r.calls
             /\ raised' = (raised \/ AnyFailed(r.calls))
             /\ arg' = patterns
             /\ IF r.exc
                THEN Abort
                ELSE /\ hypotheses' = r.ret
                     /\ pc' = "debate"
                     /\ result' = Returned("generate_creative_hypotheses", r.ret)
                     /\ UNCHANGED <<papers, paper_ids, patterns, refined>>
    /\ put_log' = LogPuts(put_log, mock_memories', heap')
    /\ op' = "generate_creative_hypotheses"
    /\ UNCHANGED <<mock_data, now, reserved, rid, topic, len0>>
    /\ UNCHANGED sideVars

\* Phase 4: refined_hypotheses = self._agent_debate(hypotheses)
DebatePhase ==
    /\ pc = "debate"
    /\ LET d == _agent_debate(heap, hypotheses)
       IN /\ refined' = d.ret
          /\ heap' = d.hp
    /\ calls' = <<>>
    /\ arg' = hypotheses
    /\ pc' = "store"
    /\ op' = "_agent_debate"
    /\ result' = Returned("_agent_debate", refined')
    /\ UNCHANGED raised
    /\ UNCHANGED <<mock_memories, mock_data, now, reserved, rid, topic, len0, papers, paper_ids,
                   patterns, hypotheses, put_log>>
    /\ UNCHANGED sideVars

\* the collaboration record is stored and the result returned
StoreCollaboration ==
    /\ pc = "store"
    /\ \E ok \in BOOLEAN :
          IF ok
          THEN /\ mock_memories' = store_memory(mock_memories, rid, "project",
                        CollaborationContent(topic, papers, patterns, hypotheses, refined, now))
               /\ calls' = <<"store_memory">>
               /\ Return([exc |-> FALSE,
                          ret |-> CollaborationResult(topic, papers, patterns, hypotheses,
                                                      refined, heap)])
          ELSE /\ mock_memories' = mock_memories
               /\ calls' = <<"store_memory!">>
               /\ Abort
    /\ raised' = (raised \/ AnyFailed(calls'))
    /\ put_log' = LogPuts(put_log, mock_memories', heap)
    /\ op' = "return"
    /\ UNCHANGED arg
    /\ UNCHANGED <<mock_data, heap, now, reserved, rid, topic, len0>>
    /\ UNCHANGED sideVars

Next ==
    \/ \E r \in Researchers, p \in IngestPapers : StorePaper(r, p)
    \/ \E r \in Researchers, tp \in Topics : StartResearch(r, tp)
    \/ ScoutPhase
    \/ SpotPhase
    \/ GeneratePhase
    \/ DebatePhase
    \/ StoreCollaboration

Spec == Init /\ [][Next]_vars

-----------------------------------------------------------------------------
(* collaborative_research as one call, and the operations of the engines    *)
(* as calls made between ingests (specification SpecOps)                    *)

\* collaborative_research, the try block; w holds the outcome of every
\* capability call of the run; mm3 and hp3 are the store and the heap at
\* the return of the generator
collaborative_research_body(mm, hp, researcher_id, research_topic, t, w) ==
    Then(scout_papers(mm, researcher_id, research_topic, t, w.scout), LAMBDA p1 :
    Then(spot_patterns(p1.mm, researcher_id, SpotterInput(p1.ret), t, w.spotter), LAMBDA p2 :
    Then(generate_creative_hypotheses(p2.mm, hp, researcher_id, research_topic, p2.ret, t,
                                      w.generator), LAMBDA p3 :
    Then(_agent_debate(p3.hp, p3.ret), LAMBDA p4 :
       IF p1.exc
       THEN [exc |-> TRUE, ret |-> <<>>, mm |-> p1.mm, hp |-> hp, mm3 |-> p1.mm, hp3 |-> hp,
             calls |-> p1.calls]
       ELSE IF p2.exc
       THEN [exc |-> TRUE, ret |-> <<>>, mm |-> p2.mm, hp |-> hp, mm3 |-> p2.mm, hp3 |-> hp,
             calls |-> p1.calls \o p2.calls]
       ELSE IF p3.exc
       THEN [exc |-> TRUE, ret |-> <<>>, mm |-> p3.mm, hp |-> p3.hp, mm3 |-> p3.mm,
             hp3 |-> p3.hp, calls |-> p1.calls \o p2.calls \o p3.calls]
       ELSE IF ~w.put_ok
       THEN [exc |-> TRUE, ret |-> <<>>, mm |-> p3.mm, hp |-> p4.hp, mm3 |-> p3.mm,
             hp3 |-> p3.hp, calls |-> p1.calls \o p2.calls \o p3.calls \o <<"store_memory!">>]
       ELSE [exc |-> FALSE,
             ret |-> CollaborationResult(research_topic, p1.ret, p2.ret, p3.ret, p4.ret, p4.hp),
             mm |-> store_memory(p3.mm, researcher_id, "project",
                                 CollaborationContent(research_topic, p1.ret, p2.ret, p3.ret,
                                                      p4.ret, t)),
             hp |-> p4.hp, mm3 |-> p3.mm, hp3 |-> p3.hp,
             calls |-> p1.calls \o p2.calls \o p3.calls \o <<"store_memory">>]))))

\* collaborative_research(researcher_id, research_topic)
collaborative_research(mm, hp, researcher_id, research_topic, t, w) ==
    Except(collaborative_research_body(mm, hp, researcher_id, research_topic, t, w), ErrorDict)

\* the capabilities answer every call of a run, or none
ResearchWorlds ==
    {[scout |-> [past |-> Rows(<<>>), candidates |-> Rows(<<Paper("p1"), Paper("p2")>>),
                 put_ok |-> TRUE],
      spotter |-> [recall_ok |-> TRUE,
                   contradictions |-> [src |-> Rows(<<>>), run |-> Rows(<<CitationRow>>)],
                   put_ok |-> TRUE],
      generator |-> [analogy |-> [i \in 1 .. 3 |->
                                    [src |-> Rows(<<>>), tgt |-> Rows(<<>>),
                                     run |-> Rows(<<MethodRow>>), bridges |-> Fails]],
                     put_ok |-> TRUE],
      put_ok |-> TRUE],
     [scout |-> [past |-> Fails, candidates |-> Fails, put_ok |-> FALSE],
      spotter |-> [recall_ok |-> FALSE, contradictions |-> [src |-> Fails, run |-> Fails],
                   put_ok |-> FALSE],
      generator |-> [analogy |-> [i \in 1 .. 3 |->
                                    [src |-> Fails, tgt |-> Fails, run |-> Fails,
                                     bridges |-> Fails]],
                     put_ok |-> FALSE],
      put_ok |-> FALSE]}

\* operation name is called for researcher r with argument a
Call(name, r, a) ==
    /\ pc = "idle"
    /\ pc' = "called"
    /\ op' = name
    /\ CalledWith(r, a)
    /\ topic' = <<>>
    /\ raised' = FALSE
    /\ result' = NoResult
    /\ calls' = <<>>
    /\ UNCHANGED <<mock_memories, mock_data, heap, now, reserved, put_log,
                   papers, paper_ids, patterns, hypotheses, refined>>
    /\ UNCHANGED sideVars

\* the call in flight runs on day t, returns res and leaves the store mm2 and the heap hp2
OpReturn(name, r, a, t, res, mm2, hp2) ==
    /\ pc = "called"
    /\ op = name
    /\ rid = r
    /\ arg = a
    /\ pc' = "idle"
    /\ t >= now
    /\ now' = t
    /\ raised' = AnyFailed(res.calls)
    /\ result' = [of |-> name, exc |-> res.exc, ret |-> res.ret]
    /\ calls' = res.calls
    /\ mock_memories' = mm2
    /\ heap' = hp2
    /\ UNCHANGED <<mock_data, reserved, op, rid, arg, len0, topic,
                   papers, paper_ids, patterns, hypotheses, refined>>
    /\ UNCHANGED sideVars

\* a whole run of collaborative_research
Research(r, tp, t, w) ==
    /\ LET res == collaborative_research(mock_memories, heap, r, tp, t, w)
       IN /\ OpReturn("collaborative_research", r, tp, t, res, res.mm, res.hp)
          /\ put_log' = LogPuts(LogPuts(put_log, res.mm3, res.hp3), res.mm, res.hp)

\* an operation that returns res and the store mm2
Op(name, r, a, t, res, mm2) ==
    /\ OpReturn(name, r, a, t, res, mm2, heap)
    /\ put_log' = LogPuts(put_log, mm2, heap)

\* the reads of the memory store
Recall(r, p, t) ==
    Op("recall_paper_memories", r, p, t,
       [exc |-> FALSE, ret |-> recall_paper_memories(mock_memories, r, p, 10), calls |-> <<>>],
       mock_memories)

Search(r, q, t) ==
    Op("search_memories", r, q, t,
       [exc |-> FALSE, ret |-> search_memories(mock_memories, r, q, 10), calls |-> <<>>],
       mock_memories)

RecentContext(r, t) ==
    Op("get_recent_context", r, 24, t,
       [exc |-> FALSE, ret |-> get_recent_context(mock_memories, r, 24), calls |-> <<>>],
       mock_memories)

\* the consolidation engine
Consolidate(r, t) ==
    \E ok \in BOOLEAN :
        LET res == consolidate_memories(mock_memories, r, t, [recall_ok |-> ok])
        IN Op("consolidate_memories", r, <<>>, t, res, res.mm)

EvolutionConcepts == {"SEARCH", "c1"}

Evolution(r, c, t) ==
    \E ok \in BOOLEAN :
        LET res == track_concept_evolution(mock_memories, r, c, [search_ok |-> ok])
        IN Op("track_concept_evolution", r, c, t, res, res.mm)

EmergingRows == [i \in 1 .. 6 |-> [concept |-> "e1", recent_count |-> 10 - i]]

GapOutcomes ==
    {[papers |-> Fails, emerging |-> Fails],
     [papers |-> Rows(<<Paper("p1")>>), emerging |-> Fails],
     [papers |-> Rows(<<Paper("p1")>>), emerging |-> Rows(<<>>)],
     [papers |-> Rows(<<>>), emerging |-> Rows(EmergingRows)]}

Gaps(r, t) ==
    \E g \in GapOutcomes :
        Op("identify_memory_gaps", r, <<>>, t, identify_memory_gaps(r, g), mock_memories)

ReportOutcomes ==
    {[recall_ok |-> FALSE, papers |-> Fails, emerging |-> Fails],
     [recall_ok |-> TRUE, papers |-> Fails, emerging |-> Fails],
     [recall_ok |-> TRUE, papers |-> Rows(<<>>), emerging |-> Rows(EmergingRows)]}

Report(r, t) ==
    \E g \in ReportOutcomes :
        LET res == generate_memory_report(mock_memories, r, t, g)
        IN Op("generate_memory_report", r, <<>>, t, res, res.mm)

\* outcomes of an operation that opens a session and runs one query
Session1(rows) ==
    {[session |-> Fails, run |-> Fails], [session |-> Rows(<<>>), run |-> Fails]}
    \cup {[session |-> Rows(<<>>), run |-> Rows(r)] : r \in rows}

\* outcomes of an operation that opens a session and runs two queries
Session2(rows1, rows2) ==
    {[session |-> Fails, run1 |-> Fails, run2 |-> Fails],
     [session |-> Rows(<<>>), run1 |-> Fails, run2 |-> Fails]}
    \cup {[session |-> Rows(<<>>), run1 |-> Rows(r), run2 |-> Fails] : r \in rows1}
    \cup {[session |-> Rows(<<>>), run1 |-> Rows(r1), run2 |-> Rows(r2)] :
              r1 \in rows1, r2 \in rows2}

\* an operation of the graph reasoning engine: it has no researcher and no store
GraphOp(name, a, res) == Op(name, "none", a, now, res, mock_memories)

Analogies ==
    \E g \in AnalogyOutcomes :
        GraphOp("find_analogies", "genomics", find_analogies("genomics", "biology", 5, g))

Contradictions ==
    \E g \in ContradictionOutcomes :
        GraphOp("detect_contradictions", "c1", detect_contradictions("c1", g))

ResearchGaps ==
    \E g \in Session2({<<[concept |-> "c2", paper_count |-> 2]>>}, {<<[method |-> "m1"]>>}) :
        GraphOp("analyze_research_gaps", "c1", analyze_research_gaps("c1", g))

YearRow(y, n) == [year |-> y, paper_count |-> n]

LifecycleRows ==
    {<<>>,
     <<YearRow(2021, 2)>>,
     <<YearRow(2010, 1), YearRow(2021, 5)>>,
     <<YearRow(2010, 2), YearRow(2016, 1), YearRow(2021, 5)>>,
     <<YearRow(2010, 4), YearRow(2012, 2), YearRow(2021, 3)>>}

Lifecycle ==
    \E g \in Session1(LifecycleRows) :
        GraphOp("track_concept_lifecycle", "c1", track_concept_lifecycle("c1", g))

CitingRow(p, d) == [citing_id |-> p, title |-> p, year |-> 2020, distance |-> d]

InfluenceRows == {<<CitingRow("p2", 1), CitingRow("p3", 2), CitingRow("p4", 2)>>,
                  <<CitingRow("p2", 0)>>}

Influence ==
    \E g \in Session1(InfluenceRows) :
        GraphOp("calculate_influence_propagation", "p1",
                calculate_influence_propagation("p1", 3, g))

SynthesisConcepts == {<<>>, <<"c1">>, <<"c1", "c2">>}

Synthesis(cs) ==
    \E g \in Session2({<<[paper_id |-> "p1", title |-> "p1", year |-> 2020]>>},
                      {<<[method |-> "m1", covered_concepts |-> <<"c1", "c2">>]>>}) :
        GraphOp("find_synthesis_paths", cs, find_synthesis_paths(cs, g))

AuthorRow(a, b) == [author1 |-> a, author2 |-> b]

CommunityRows == {<<AuthorRow("a", "b"), AuthorRow("b", "c"), AuthorRow("d", "e")>>}

Communities2(n) ==
    \E g \in Session1(CommunityRows) :
        GraphOp("detect_research_communities", n, detect_research_communities(n, g))

\* the fusion layer
ViewOutcomes ==
    {[recall_ok |-> FALSE, papers |-> Fails, bridges |-> Fails],
     [recall_ok |-> TRUE, papers |-> Fails, bridges |-> Fails],
     [recall_ok |-> TRUE, papers |-> Rows(<<Paper("p1")>>), bridges |-> Fails],
     [recall_ok |-> TRUE, papers |-> Rows(<<Paper("p1")>>), bridges |-> Rows(<<>>)],
     [recall_ok |-> TRUE, papers |-> Rows(<<>>), bridges |-> Rows(<<"b1", "b2", "b3", "b4">>)]}

View(r) ==
    \E g \in ViewOutcomes :
        LET res == personalized_graph_view(mock_memories, r, now, g)
        IN Op("personalized_graph_view", r, <<>>, now, res, res.mm)

Known(r) == KnownConcepts(Memories(mock_memories, r))

DistantRows == <<[distant_concept |-> "c9", path_nodes |-> <<"c1", "c5", "c9">>],
                 [distant_concept |-> "c1", path_nodes |-> <<"c2", "c1">>]>>

SerendipityOutcomes ==
    {[recall_ok |-> FALSE, distant |-> [session |-> Fails, run |-> Fails], domain |-> Fails,
      analogy |-> [src |-> Fails, tgt |-> Fails, run |-> Fails, bridges |-> Fails]],
     [recall_ok |-> TRUE, distant |-> [session |-> Fails, run |-> Fails], domain |-> Fails,
      analogy |-> [src |-> Fails, tgt |-> Fails, run |-> Fails, bridges |-> Fails]],
     [recall_ok |-> TRUE, distant |-> [session |-> Rows(<<>>), run |-> Rows(DistantRows)],
      domain |-> Rows(<<Paper("p1")>>),
      analogy |-> [src |-> Fails, tgt |-> Fails, run |-> Fails, bridges |-> Fails]],
     [recall_ok |-> TRUE, distant |-> [session |-> Rows(<<>>), run |-> Rows(<<>>)],
      domain |-> Rows(<<>>),
      analogy |-> [src |-> Rows(<<>>), tgt |-> Rows(<<>>), run |-> Rows(<<MethodRow>>),
                   bridges |-> Fails]],
     [recall_ok |-> TRUE, distant |-> [session |-> Rows(<<>>), run |-> Fails],
      domain |-> Rows(<<Paper("p3")>>),
      analogy |-> [src |-> Fails, tgt |-> Fails, run |-> Fails, bridges |-> Fails]]}

Serendipity(r) ==
    \E g \in SerendipityOutcomes, order \in Orders(Known(r)) :
        LET res == serendipitous_discovery(mock_memories, r, [order |-> order] @@ g)
        IN Op("serendipitous_discovery", r, <<>>, now, res, res.mm)

Contexts == {"c1", "machine learning"}

Intuition(r, ctx) ==
    \E g \in ReportOutcomes :
        LET res == research_intuition(mock_memories, r, ctx, g)
        IN Op("research_intuition", r, ctx, now, res, res.mm)

Load(r) ==
    \E recent_ok \in BOOLEAN, ok \in BOOLEAN :
        LET res == cognitive_load_optimizer(mock_memories, r, now,
                                            [recent_ok |-> recent_ok, recall_ok |-> ok])
        IN Op("cognitive_load_optimizer", r, <<>>, now, res, res.mm)

PathRow(n, nodes) == [path_length |-> n, nodes |-> nodes]

\* what find_connections answers, first for each known concept, then for the closest
ConnectionOutcomes(known) ==
    {[recall_ok |-> FALSE, conn |-> [c \in known |-> Fails], conn2 |-> Fails],
     [recall_ok |-> TRUE, conn |-> [c \in known |-> Fails], conn2 |-> Fails],
     [recall_ok |-> TRUE, conn |-> [c \in known |-> Rows(<<>>)], conn2 |-> Fails],
     [recall_ok |-> TRUE,
      conn |-> [c \in known |-> Rows(<<PathRow(2, <<c, "x1", "t1">>)>>)],
      conn2 |-> Fails],
     [recall_ok |-> TRUE,
      conn |-> [c \in known |-> Rows(<<PathRow(2, <<c, "x1", "t1">>)>>)],
      conn2 |-> Rows(<<>>)],
     [recall_ok |-> TRUE,
      conn |-> [c \in known |-> Rows(<<PathRow(IF c = "c2" THEN 1 ELSE 2, <<c, "t1">>)>>)],
      conn2 |-> Rows(<<PathRow(4, <<"c2", "c1", "x1", "x2", "t1">>)>>)]}

LearningPath(r, target) ==
    \E g \in ConnectionOutcomes(Known(r)), order \in Orders(Known(r)) :
        LET res == learning_path_generator(mock_memories, r, target, [order |-> order] @@ g)
        IN Op("learning_path_generator", r, target, now, res, res.mm)

\* ingests of specification SpecOps
OpsIngest == {<<"r1", "p1">>, <<"r1", "p2">>}

\* the calls of specification SpecOps
CallOps ==
    \/ \E r \in Researchers :
          /\ TotalRecords(mock_memories) + 4 <= MaxMem
          /\ Call("collaborative_research", r, <<"genomics">>)
    \/ \E r \in Researchers, p \in {NonePid, "p1"} : Call("recall_paper_memories", r, p)
    \/ \E r \in Researchers : Call("search_memories", r, "c1")
    \/ \E r \in Researchers : Call("get_recent_context", r, 24)
    \/ \E r \in Researchers : Call("consolidate_memories", r, <<>>)
    \/ \E r \in Researchers, c \in EvolutionConcepts : Call("track_concept_evolution", r, c)
    \/ Call("identify_memory_gaps", "r1", <<>>)
    \/ \E r \in Researchers : Call("generate_memory_report", r, <<>>)
    \/ Call("find_analogies", "none", "genomics")
    \/ Call("detect_contradictions", "none", "c1")
    \/ Call("analyze_research_gaps", "none", "c1")
    \/ Call("track_concept_lifecycle", "none", "c1")
    \/ Call("calculate_influence_propagation", "none", "p1")
    \/ \E cs \in SynthesisConcepts : Call("find_synthesis_paths", "none", cs)
    \/ Call("detect_research_communities", "none", 2)
    \/ Call("personalized_graph_view", "r1", <<>>)
    \/ Call("serendipitous_discovery", "r1", <<>>)
    \/ \E ctx \in Contexts : Call("research_intuition", "r1", ctx)
    \/ Call("cognitive_load_optimizer", "r1", <<>>)
    \/ Call("learning_path_generator", "r1", "t1")

NextOps ==
    \/ CallOps
    \/ \E i \in OpsIngest, t \in ClockDays : StorePaperAt(i[1], i[2], t, MaxPapers)
    \/ \E r \in Researchers, w \in ResearchWorlds : Research(r, <<"genomics">>, now, w)
    \/ \E r \in Researchers, p \in {NonePid, "p1"} : Recall(r, p, now)
    \/ \E r \in Researchers : Search(r, "c1", now)
    \/ \E r \in Researchers : RecentContext(r, now)
    \/ \E r \in Researchers : Consolidate(r, now)
    \/ \E r \in Researchers, c \in EvolutionConcepts : Evolution(r, c, now)
    \/ Gaps("r1", now)
    \/ \E r \in Researchers : Report(r, now)
    \/ Analogies
    \/ Contradictions
    \/ ResearchGaps
    \/ Lifecycle
    \/ Influence
    \/ \E cs \in SynthesisConcepts : Synthesis(cs)
    \/ Communities2(2)
    \/ View("r1")
    \/ Serendipity("r1")
    \/ \E ctx \in Contexts : Intuition("r1", ctx)
    \/ Load("r1")
    \/ LearningPath("r1", "t1")

SpecOps == Init /\ [][NextOps]_vars

-----------------------------------------------------------------------------
(* Specification of calculate_memory_strength as a pure function:          *)
(* the memory and the evaluation times are drawn from bounded sets.        *)

\* day of the probed timestamps, and a day so far in the future that
\* math.exp overflows for small access counts
TsBase == 3
FarDay == 40000

ProbeTimestamps ==
    {[form |-> f, day |-> 0] : f \in {"None", "empty_str", "garbage", "number"}}
    \cup {[form |-> f, day |-> d] : f \in {"iso_naive", "iso_z", "dt_naive", "dt_aware"},
                                    d \in {TsBase, FarDay}}

ProbeAccess == {0 - 2, 0 - 1} \cup (0 .. MaxAccess)

\* memory dicts: with and without content.timestamp, with and without metadata.access_count
ProbeMems ==
    {[content |-> [timestamp |-> ts], metadata |-> [access_count |-> ac]] :
        ts \in ProbeTimestamps, ac \in ProbeAccess}
    \cup {[content |-> [timestamp |-> ts], metadata |-> [source |-> "pdf_upload"]] :
        ts \in ProbeTimestamps}
    \cup {[content |-> [title |-> "t"], metadata |-> [access_count |-> 1]],
          [memory_type |-> "personal"]}

ProbeNows == {[aware |-> a, day |-> d] : a \in BOOLEAN, d \in 0 .. (TsBase + MaxElapsed)}

InitStrength ==
    /\ MainInit
    /\ smem \in ProbeMems
    /\ snow \in ProbeNows
    /\ sout = NotEvaluated
    /\ snow2 = snow
    /\ sout2 = NotEvaluated
    /\ sac3 = 1
    /\ sout3 = NotEvaluated
    /\ ConcIdle
    /\ PureIdle

\* a first evaluation of the probed memory
EvalStrength ==
    /\ sout = NotEvaluated
    /\ sout' = calculate_memory_strength(smem, snow)
    /\ UNCHANGED <<smem, snow, snow2, sout2, sac3, sout3>>
    /\ UNCHANGED mainVars
    /\ UNCHANGED <<concVars, pureVars>>

\* a second evaluation of the same memory at another time
EvalStrengthAgain ==
    /\ sout # NotEvaluated
    /\ sout2 = NotEvaluated
    /\ sout3 = NotEvaluated
    /\ \E d \in 0 .. (TsBase + MaxElapsed) :
          /\ snow2' = [aware |-> snow.aware, day |-> d]
          /\ sout2' = calculate_memory_strength(smem, snow2')
    /\ UNCHANGED <<smem, snow, sout, sac3, sout3>>
    /\ UNCHANGED mainVars
    /\ UNCHANGED <<concVars, pureVars>>

\* the memory with metadata.access_count = ac
WithAccess(memory, ac) ==
    [metadata |-> [access_count |-> ac] @@ Get(memory, "metadata", EmptyDict)] @@ memory

\* a second evaluation at the same time of the memory with another access count
EvalStrengthAccess ==
    /\ sout # NotEvaluated
    /\ sout2 = NotEvaluated
    /\ sout3 = NotEvaluated
    /\ \E ac \in ProbeAccess :
          /\ sac3' = ac
          /\ sout3' = calculate_memory_strength(WithAccess(smem, ac), snow)
    /\ UNCHANGED <<smem, snow, sout, snow2, sout2>>
    /\ UNCHANGED mainVars
    /\ UNCHANGED <<concVars, pureVars>>

NextStrength == EvalStrength \/ EvalStrengthAgain \/ EvalStrengthAccess

SpecStrength == InitStrength /\ [][NextStrength]_vars

-----------------------------------------------------------------------------
(* Specification SpecPure: one function of the engines applied to           *)
(* arguments drawn from bounded sets                                        *)

\* the sequences over S of length at most n
SeqsUpTo(S, n) == UNION {[1 .. k -> S] : k \in 0 .. n}

\* what a search returns: rows that mention "search" and rows that do not
EvolutionInputs ==
    {[fn |-> "track_concept_evolution", concept |-> "SEARCH", memories |-> ms] :
        ms \in SeqsUpTo({MockSearchRows[1], MockSearchRows[2]}, MaxExposures)}

\* names of the concepts a probed researcher knows
ConceptNames == <<"k1", "k2", "k3", "k4", "k5", "k6", "k7", "k8", "k9", "k10", "k11", "k12",
                  "k13", "k14">>

\* a store in which r1 has one record with the first n concepts
StoreKnowing(n) ==
    IF n = 0 THEN EmptyDict
    ELSE [r1 |-> <<[id |-> 1,
                    content |-> [type |-> "paper_reading", paper_id |-> "p1",
                                 key_concepts |-> SubSeq(ConceptNames, 1, n)]]>>]

\* the first n concepts in the two orders the probe iterates them
KnownOrders(n) == {SubSeq(ConceptNames, 1, n), [i \in 1 .. n |-> ConceptNames[n + 1 - i]]}

\* r1 knows n concepts, iterated in some order; only the k-th of them (none
\* when k = 0) has a path to the target
LearningInput(n, k, ord) ==
    [fn |-> "learning_path_generator", mm |-> StoreKnowing(n),
     g |-> [order |-> ord, recall_ok |-> TRUE,
            conn |-> [c \in {ConceptNames[i] : i \in 1 .. n} |->
                         IF k > 0 /\ c = ConceptNames[k]
                         THEN Rows(<<PathRow(2, <<c, "x1", "t1">>)>>) ELSE Rows(<<>>)],
            conn2 |-> IF k > 0 THEN Rows(<<PathRow(2, <<ConceptNames[k], "x1", "t1">>)>>)
                      ELSE Rows(<<>>)]]

\* the nodes of a path of d hops from c to the target
PathNodes(c, d) == <<c>> \o SubSeq(<<"x1", "x2", "x3">>, 1, d - 1) \o <<"t1">>

\* what find_connections answers for c: no path when d = 0, else one of d hops
PathAnswer(c, d) == IF d = 0 THEN Rows(<<>>) ELSE Rows(<<PathRow(d, PathNodes(c, d))>>)

\* a store in which r1 has one record with the concepts cs
StoreOf(cs) ==
    [r1 |-> <<[id |-> 1,
               content |-> [type |-> "paper_reading", paper_id |-> "p1",
                            key_concepts |-> cs]]>>]

\* r1 knows three concepts, one of them possibly with the empty name, iterated
\* in any order, each with a first path of 1 to MaxPathLength hops or with none;
\* the second query is answered as the first one was for some known concept
NearestInputs ==
    UNION {UNION {{[fn |-> "learning_path_generator", mm |-> StoreOf(cs),
                    g |-> [order |-> ord, recall_ok |-> TRUE,
                           conn |-> [c \in DOMAIN d |-> PathAnswer(c, d[c])],
                           conn2 |-> PathAnswer(again, d[again])]] :
                      ord \in Orders(DOMAIN d), again \in DOMAIN d} :
                  d \in [{cs[i] : i \in DOMAIN cs} -> 0 .. MaxPathLength]} :
              cs \in {<<"k1", "k2", "k3">>, <<"", "k1", "k2">>}}

LearningInputs ==
    NearestInputs \cup
    UNION {UNION {{LearningInput(n, k, ord) : ord \in KnownOrders(n)} : k \in 0 .. n} :
              n \in 0 .. MaxKnown}

\* the numbers of papers, patterns and hypotheses of a run
ScoreInputs ==
    {[fn |-> "_calculate_collaboration_score", papers |-> p, patterns |-> q, hypotheses |-> h] :
        p \in 0 .. MaxCount, q \in 0 .. MaxCount, h \in 0 .. MaxCount}

\* paper memories as store_paper_memory makes them, reduced to what grouping reads
GroupedMemories ==
    {[content |-> [type |-> "paper_reading", paper_id |-> p, key_concepts |-> cs]] :
        p \in {"p1", "p2", "p3"},
        cs \in {<<>>, <<"c1">>, <<"c1", "c2">>, <<"c2", "c3">>, <<"c1", "c2", "c3">>,
                 <<"c1", "c1">>}}

CrossRefInputs ==
    {[fn |-> "_build_cross_references", memories |-> ms] :
        ms \in SeqsUpTo(GroupedMemories, MaxGrouped)}

\* ids of the candidate papers, in the order the graph returns them
CandidateNames == <<"q1", "q2", "q3", "q4", "q5", "q6", "q7", "q8", "q9", "q10", "q11",
                    "q12", "q13", "q14">>

\* the first n candidates
Candidates(n) == [i \in 1 .. n |-> Paper(CandidateNames[i])]

\* reading histories: none, one or two of the papers at these positions
HistoryPicks == {1, 5, 10, 11}

Histories ==
    {<<>>}
    \cup {<<Paper(CandidateNames[i])>> : i \in HistoryPicks}
    \cup {<<Paper(CandidateNames[i]), Paper(CandidateNames[j])>> :
              i \in HistoryPicks, j \in HistoryPicks}

\* what the scout meets: the history and the candidates, fetched or failing,
\* and a store that takes the insight or fails
ScoutInputs ==
    {[fn |-> "scout_papers", g |-> [past |-> past, candidates |-> cands, put_ok |-> ok]] :
        past \in {Fails} \cup {Rows(h) : h \in Histories},
        cands \in {Fails} \cup {Rows(Candidates(n)) : n \in 0 .. MaxCandidates},
        ok \in BOOLEAN}

\* concept lists as the extraction returns them: a comma-separated answer
\* split, so a concept may come twice
ExtractedConcepts ==
    {<<>>, <<"c1", "c2">>, <<"c2", "c1">>, <<"c1", "c2", "c3">>, <<"c1", "c2", "c1">>,
     <<"c1", "c1">>}

\* the store of r1 after uploads of p1 and p2, and of p1 once more when again
UploadedStore(cs1, cs2, again) ==
    LET m1 == store_paper_memory(EmptyDict, "r1", "p1", [title |-> "p1", concepts |-> cs1], 0)
        m2 == store_paper_memory(m1, "r1", "p2", [title |-> "p2", concepts |-> cs2], 0)
    IN IF again
       THEN store_paper_memory(m2, "r1", "p1", [title |-> "p1", concepts |-> <<"c2", "c3">>], 0)
       ELSE m2

\* what the pattern spotter meets: a store, paper ids (stored or not, possibly
\* repeated), a graph with or without a contradiction, a store that takes the
\* insight or fails
SpotterInputs ==
    {[fn |-> "spot_patterns", mm |-> UploadedStore(cs1, cs2, again), ids |-> ids,
      g |-> [recall_ok |-> TRUE, put_ok |-> ok,
             contradictions |-> [src |-> Rows(<<>>), run |-> Rows(rows)]]] :
        cs1 \in ExtractedConcepts, cs2 \in ExtractedConcepts, again \in BOOLEAN,
        ids \in SeqsUpTo({"p1", "p2", "p3"}, MaxIds),
        ok \in BOOLEAN, rows \in {<<>>, <<CitationRow>>}}

\* patterns as the spotter returns them
SpottedPatterns ==
    {[type |-> "concept_co_occurrence", concept1 |-> "c1", concept2 |-> "c2",
      frequency |-> 2, pattern_strength |-> SCALE],
     [type |-> "concept_co_occurrence", concept1 |-> "c2", concept2 |-> "c3",
      frequency |-> 2, pattern_strength |-> HALF],
     [type |-> "contradiction", details |-> CitationRow]}

\* what the hypothesis generator meets: a topic, patterns, the graph's answers
\* for the three domains, a store that takes the insight or fails
GeneratorInputs ==
    {[fn |-> "generate_creative_hypotheses", topic |-> tp, patterns |-> pats,
      g |-> [analogy |-> w, put_ok |-> ok]] :
        tp \in Topics, pats \in SeqsUpTo(SpottedPatterns, MaxPatterns),
        w \in AnalogyWorlds, ok \in BOOLEAN}

\* hypothesis dicts as the generator builds them, and one without a basis
DebatableHypotheses ==
    {[hypothesis_text |-> <<"interaction", "c1", "c2", "genomics">>,
      basis |-> "pattern_analysis", pattern_strength |-> HALF, novelty_score |-> 7500],
     [hypothesis_text |-> <<"apply", "m1", "Physics", "genomics">>,
      basis |-> "cross_domain_analogy", source_domain |-> "Physics", novelty_score |-> 8500],
     [hypothesis_text |-> <<"genomics">>]}

\* the debate is given a list of hypothesis dicts
DebateInputs ==
    {[fn |-> "_agent_debate", hypotheses |-> hyps] :
        hyps \in SeqsUpTo(DebatableHypotheses, MaxHypotheses)}

\* the years a probed timeline may have, ascending as ORDER BY year ASC gives them
TimelineYears == <<2012, 2014, 2015, 2020, 2022>>

\* the rows of the years that have papers, n[i] papers in the i-th year
TimelineRows(n) ==
    LET present == SelectSeq([i \in DOMAIN TimelineYears |-> i], LAMBDA i : n[i] > 0)
    IN [k \in DOMAIN present |-> YearRow(TimelineYears[present[k]], n[present[k]])]

\* the lifecycle tracker meets a timeline
LifecycleInputs ==
    {[fn |-> "track_concept_lifecycle",
      g |-> [session |-> Rows(<<>>), run |-> Rows(TimelineRows(n))]] :
        n \in [DOMAIN TimelineYears -> 0 .. MaxYearPapers]}

SynthesisPaperRow(p) == [paper_id |-> p, title |-> p, year |-> 2020]

SynthesisMethodRow(m, cs) == [method |-> m, covered_concepts |-> cs]

\* find_synthesis_paths meets papers that combine the concepts, or none, and
\* shared methods, or none
SynthesisInputs ==
    {[fn |-> "find_synthesis_paths", concepts |-> cs, g |-> g] :
        cs \in {<<"c1", "c2">>, <<"c1", "c2", "c3">>},
        g \in Session2({<<>>, <<SynthesisPaperRow("p1")>>,
                         <<SynthesisPaperRow("p1"), SynthesisPaperRow("p2")>>},
                        {<<>>, <<SynthesisMethodRow("m1", <<"c1", "c2">>)>>,
                         <<SynthesisMethodRow("m1", <<"c1", "c2">>),
                           SynthesisMethodRow("m2", <<"c2", "c1">>)>>})}

\* a memory too weak to be left unreviewed
WeakMemory == [id |-> 1, content |-> [type |-> "paper_reading", title |-> "p1"]]

\* the load report meets a number of papers read today and no weak memory or
\* eleven of them
LoadInputs ==
    {[fn |-> "cognitive_load_optimizer", papers_today |-> n,
      weak_memories |-> [i \in 1 .. k |-> WeakMemory]] :
        n \in 0 .. MaxToday, k \in {0, 11}}

\* the authors of the probed collaboration graphs, in the order of their names
AuthorNames == <<"a", "b", "c", "d", "e">>

\* the pairs the query can return: author1 < author2
AuthorPairs ==
    {AuthorRow(AuthorNames[p[1]], AuthorNames[p[2]]) :
        p \in {q \in (DOMAIN AuthorNames) \X (DOMAIN AuthorNames) : q[1] < q[2]}}

\* community detection meets a list of author pairs and a minimal size
CommunityInputs ==
    {[fn |-> "detect_research_communities", min_community_size |-> m,
      g |-> [session |-> Rows(<<>>), run |-> Rows(rows)]] :
        m \in 2 .. 3, rows \in SeqsUpTo(AuthorPairs, MaxPairs)}

PureInputs ==
    EvolutionInputs \cup LearningInputs \cup ScoreInputs \cup CrossRefInputs \cup ScoutInputs
    \cup SpotterInputs \cup GeneratorInputs \cup DebateInputs \cup LifecycleInputs
    \cup SynthesisInputs \cup LoadInputs \cup CommunityInputs

InitPure ==
    /\ MainInit
    /\ ProbeIdle
    /\ ConcIdle
    /\ pin \in PureInputs
    /\ pout = NotApplied

PureReturn(fn, ret) ==
    /\ pin.fn = fn
    /\ pout = NotApplied
    /\ pout' = [fn |-> fn, ret |-> ret]
    /\ UNCHANGED pin
    /\ UNCHANGED mainVars
    /\ UNCHANGED <<probeVars, concVars>>

EvalEvolution ==
    PureReturn("track_concept_evolution", EvolutionReport(pin.concept, pin.memories))

EvalLearningPath ==
    PureReturn("learning_path_generator",
               learning_path_generator(pin.mm, "r1", "t1", pin.g).ret)

EvalScore ==
    PureReturn("_calculate_collaboration_score",
               _calculate_collaboration_score(pin.papers, pin.patterns, pin.hypotheses))

\* the cross-references consolidate_memories builds from the memories, all of
\* one strength and so in their order
EvalCrossRefs ==
    PureReturn("_build_cross_references",
               _build_cross_references(_group_by_concept(
                   [i \in DOMAIN pin.memories |->
                       [memory |-> pin.memories[i], strength |-> HALF]])))

EvalScout ==
    PureReturn("scout_papers", scout_papers(EmptyDict, "r1", "genomics", 0, pin.g).ret)

EvalSpotter ==
    PureReturn("spot_patterns", spot_patterns(pin.mm, "r1", pin.ids, 0, pin.g).ret)

\* the hypothesis dicts of the returned list
EvalGenerator ==
    LET res == generate_creative_hypotheses(EmptyDict, <<>>, "r1", pin.topic, pin.patterns,
                                            0, pin.g)
    IN PureReturn("generate_creative_hypotheses", Deref(res.hp, res.ret))

\* the dicts of the given list live on the heap, one address each; the
\* returned list is read after the call
EvalDebate ==
    LET hp == pin.hypotheses
        res == _agent_debate(hp, [i \in DOMAIN hp |-> i])
    IN PureReturn("_agent_debate", Deref(res.hp, res.ret))

EvalLifecycle ==
    PureReturn("track_concept_lifecycle", track_concept_lifecycle("c1", pin.g).ret)

EvalSynthesis ==
    PureReturn("find_synthesis_paths", find_synthesis_paths(pin.concepts, pin.g).ret)

\* the load level and the recommendations of the report
EvalLoad ==
    PureReturn("cognitive_load_optimizer",
               [load_level |-> LoadLevel(pin.papers_today),
                recommendations |-> LoadRecommendations(pin.papers_today, pin.weak_memories)])

EvalCommunities ==
    PureReturn("detect_research_communities",
               detect_research_communities(pin.min_community_size, pin.g).ret)

NextPure ==
    \/ EvalEvolution
    \/ EvalLearningPath
    \/ EvalScore
    \/ EvalCrossRefs
    \/ EvalScout
    \/ EvalSpotter
    \/ EvalGenerator
    \/ EvalDebate
    \/ EvalLifecycle
    \/ EvalSynthesis
    \/ EvalLoad
    \/ EvalCommunities

SpecPure == InitPure /\ [][NextPure]_vars

-----------------------------------------------------------------------------
(* Specification SpecConc: two threads, each making one call, interleaved   *)
(* at the statements of _store_mock_memory                                  *)

\* the puts of one call: a run of collaborative_research makes four
\* (three insights and the collaboration record), an ingest one
RunPuts == 4

PutsOf(kind) ==
    IF kind = "collaborative_research" THEN RunPuts
    ELSE IF kind = "store_paper_memory" THEN 1
    ELSE 0

ConcKinds == {"collaborative_research", "store_paper_memory", "consolidate_memories"}

\* what a thread puts: the record of its call, numbered within the call
PutContent(t, th) == [by |-> t, kind |-> th.kind, n |-> PutsOf(th.kind) - th.left + 1]

ConcStep(t, th2, mm2, acked2) ==
    /\ threads' = [threads EXCEPT ![t] = th2]
    /\ mock_memories' = mm2
    /\ acked' = acked2
    /\ UNCHANGED <<mock_data, heap, now, reserved, pc, rid, topic, len0, arg, raised,
                   papers, paper_ids, patterns, hypotheses, refined, op, result, calls,
                   put_log>>
    /\ UNCHANGED <<probeVars, pureVars>>

\* thread t is given a call for researcher r
ConcCall(t, kind, r) ==
    /\ threads[t].pc = "idle"
    /\ ConcStep(t, [IdleThread EXCEPT !.pc = IF PutsOf(kind) > 0 THEN "check" ELSE "recall",
                                      !.kind = kind, !.r = r, !.left = PutsOf(kind)],
                mock_memories, acked)

\* if user_id not in self.mock_memories:
ConcCheck(t) ==
    /\ threads[t].pc = "check"
    /\ LET missing == threads[t].r \notin DOMAIN mock_memories
       IN ConcStep(t, [threads[t] EXCEPT !.missing = missing,
                                         !.pc = IF missing THEN "create" ELSE "number"],
                   mock_memories, acked)

\* self.mock_memories[user_id] = []
ConcCreate(t) ==
    /\ threads[t].pc = "create"
    /\ ConcStep(t, [threads[t] EXCEPT !.pc = "number"],
                [u \in (DOMAIN mock_memories) \cup {threads[t].r} |->
                    IF u = threads[t].r THEN <<>> ELSE mock_memories[u]],
                acked)

\* memory_data["id"] = len(self.mock_memories[user_id]) + 1
ConcNumber(t) ==
    /\ threads[t].pc = "number"
    /\ ConcStep(t, [threads[t] EXCEPT !.pc = "append",
                                      !.id = Len(mock_memories[threads[t].r]) + 1],
                mock_memories, acked)

\* self.mock_memories[user_id].append(memory_data); return {"id": ..., "status": "success"}
ConcAppend(t) ==
    /\ threads[t].pc = "append"
    /\ LET th == threads[t]
           rec == [id |-> th.id, content |-> PutContent(t, th)]
       IN ConcStep(t, [th EXCEPT !.left = th.left - 1,
                                 !.pc = IF th.left > 1 THEN "check" ELSE "done"],
                   [mock_memories EXCEPT ![th.r] = Append(@, rec)],
                   acked \cup {[r |-> th.r, content |-> rec.content]})

\* consolidate_memories: memory_service.recall_paper_memories(researcher_id, limit=100)
ConcRecall(t) ==
    /\ threads[t].pc = "recall"
    /\ ConcStep(t, [threads[t] EXCEPT !.pc = "done",
                                      !.seen = Len(Take(Memories(mock_memories, threads[t].r), 100))],
                mock_memories, acked)

NextConc ==
    \/ \E t \in Threads, kind \in ConcKinds, r \in Researchers : ConcCall(t, kind, r)
    \/ \E t \in Threads : ConcCheck(t)
    \/ \E t \in Threads : ConcCreate(t)
    \/ \E t \in Threads : ConcNumber(t)
    \/ \E t \in Threads : ConcAppend(t)
    \/ \E t \in Threads : ConcRecall(t)

SpecConc == Init /\ [][NextConc]_vars

-----------------------------------------------------------------------------
(* Properties of calculate_memory_strength (SpecStrength) *)

ProbeTs == Get(Get(smem, "content", EmptyDict), "timestamp", NoneTs)
ProbeAc == Get(Get(smem, "metadata", EmptyDict), "access_count", 1)
\* the timestamp denotes a point in time
ProbeParses == ProbeTs.form \in {"iso_naive", "iso_z", "dt_naive", "dt_aware"}
ProbeAware == ProbeTs.form \in {"iso_z", "dt_aware"}
\* ... in the timezone form of the evaluation time
ProbeComparable == ProbeParses /\ (ProbeAware = snow.aware)
ProbeElapsed1 == snow.day - ProbeTs.day
ProbeElapsed2 == snow2.day - ProbeTs.day
\* 709 * 30 days: up to here math.exp cannot overflow, whatever the access count
NoOverflowDays == 21270

\* C9 as stated: the result is in [0,1], and it is 0.5 when the timestamp is
\* absent or unparseable or a step fails, where a future timestamp, a zero or
\* negative access_count and a differing timezone form count as failing steps.
C9_AsStated ==
    sout # NotEvaluated =>
        /\ ~sout.exc
        /\ sout.v >= 0 /\ sout.v <= SCALE
        /\ (~ProbeParses \/ ~ProbeComparable) => sout.v = HALF
        /\ (ProbeComparable /\ ProbeElapsed1 < 0) => sout.v = HALF
        /\ (ProbeComparable /\ ProbeAc <= 0) => sout.v = HALF

\* C9 amended: calculate_memory_strength never raises and returns a value in
\* [0,1]; it returns 0.5 when the timestamp is absent, empty, unparseable, not a
\* datetime or of another timezone form than the evaluation time, and when
\* access_count <= -1; a future timestamp (not so far that math.exp overflows)
\* gives 1.0, and access_count = 0 is computed with base strength 1, giving 1.0
\* at zero elapsed time and less than 1.0 afterwards.
C9_StrengthTotal ==
    sout # NotEvaluated =>
        /\ ~sout.exc
        /\ sout.v >= 0 /\ sout.v <= SCALE
        /\ (~ProbeParses \/ ~ProbeComparable) => sout.v = HALF
        /\ (ProbeComparable /\ ProbeAc <= 0 - 1) => sout.v = HALF
        /\ (ProbeComparable /\ ProbeAc >= 0 /\ ProbeElapsed1 < 0
              /\ ProbeElapsed1 >= 0 - NoOverflowDays) => sout.v = SCALE
        /\ (ProbeComparable /\ ProbeAc = 0 /\ ProbeElapsed1 = 0) => sout.v = SCALE
        /\ (ProbeComparable /\ ProbeAc = 0 /\ ProbeElapsed1 > 0) => sout.v < SCALE

\* a future timestamp has been evaluated to the clamped 1.0
C9_Witness ==
    /\ sout # NotEvaluated
    /\ ProbeComparable /\ ProbeAc = 0 /\ ProbeElapsed1 < 0
    /\ sout.v = SCALE

-----------------------------------------------------------------------------
(* Claims about collaborative_research (specification Spec) *)

AgentPhases == {"scout_papers", "spot_patterns", "generate_creative_hypotheses"}

PhaseAfter(phase) ==
    IF phase = "scout_papers" THEN "spot"
    ELSE IF phase = "spot_patterns" THEN "generate"
    ELSE "debate"

AgentOf(phase) ==
    IF phase = "scout_papers" THEN Scout
    ELSE IF phase = "spot_patterns" THEN Spotter
    ELSE Generator

LastOf(s) == s[Len(s)]

\* C1: the phases of collaborative_research run in the order scout, pattern
\* spotter, hypothesis generator, debate; a phase starts only when the one
\* before it has returned, and is called with what that one returned: the
\* spotter with the ids of the scout's papers, the generator with the
\* spotter's patterns, the debate with the generator's hypotheses.
C1_PhaseOrder ==
    [][ /\ (op' = "scout_papers" => op = "collaborative_research")
        /\ (op' = "spot_patterns" =>
                /\ op = "scout_papers"
                /\ result.of = "scout_papers"
                /\ arg' = [i \in DOMAIN result.ret |-> result.ret[i].paper_id])
        /\ (op' = "generate_creative_hypotheses" =>
                /\ op = "spot_patterns"
                /\ result.of = "spot_patterns"
                /\ arg' = result.ret)
        /\ (op' = "_agent_debate" =>
                /\ op = "generate_creative_hypotheses"
                /\ result.of = "generate_creative_hypotheses"
                /\ arg' = result.ret)
        /\ (op' = "return" /\ ~result'.exc /\ calls' = <<"store_memory">> =>
                op = "_agent_debate")
      ]_vars

\* a run in which every phase had something to hand on has reached the debate
C1_Witness ==
    /\ op = "_agent_debate"
    /\ Len(papers) >= 2
    /\ Len(patterns) >= 1
    /\ Len(arg) >= 1
    /\ Len(refined) >= 1

C8_FourRecords ==
    [][ /\ (op' \in AgentPhases /\ ~AnyFailed(calls') =>
                LET recs == Memories(mock_memories', rid)
                IN /\ Len(recs) = Len(Memories(mock_memories, rid)) + 1
                   /\ LastOf(recs).content.type = "agent_insight"
                   /\ LastOf(recs).content.agent_id = AgentOf(op').agent_id)
        /\ (op' = "return" /\ ~raised' =>
                LET recs == Memories(mock_memories', rid)
                IN /\ Len(recs) = len0 + 4
                   /\ \A i \in 1 .. len0 : recs[i] = put_log[rid][i]
                   /\ \A i \in 1 .. 4 : recs[len0 + i].id = len0 + i
                   /\ recs[len0 + 1].content.agent_id = Scout.agent_id
                   /\ recs[len0 + 2].content.agent_id = Spotter.agent_id
                   /\ recs[len0 + 3].content.agent_id = Generator.agent_id
                   /\ recs[len0 + 4].content.type = "multi_agent_collaboration")
      ]_vars

\* a run without a failure returned, and its scout had found nothing
C8_Witness ==
    /\ op = "return"
    /\ ~raised
    /\ result.ret.agent_insights.scout = 0
    /\ Len(mock_memories[rid]) = len0 + 4
    /\ len0 >= 1


\* the public operations of the consolidation engine, the graph reasoning
\* engine, the fusion layer and the orchestrator
ConsolidationOps == {"consolidate_memories", "track_concept_evolution",
                     "identify_memory_gaps", "generate_memory_report"}

GraphReasoningOps == {"find_analogies", "detect_contradictions", "analyze_research_gaps",
                      "track_concept_lifecycle", "calculate_influence_propagation",
                      "find_synthesis_paths", "detect_research_communities"}

FusionOps == {"personalized_graph_view", "serendipitous_discovery", "research_intuition",
              "cognitive_load_optimizer", "learning_path_generator"}

EngineOps == ConsolidationOps \cup GraphReasoningOps \cup FusionOps

StoreReads == {"recall_paper_memories", "search_memories", "get_recent_context"}

\* C3: every public operation of the consolidation engine, the graph
\* reasoning engine, the fusion layer and the orchestrator returns, whatever
\* its graph and store calls answer (rows, no rows, a raise): no exception
\* leaves it; it returns a result, or its error value ({"error": ...} or the
\* empty list).
C3_Total ==
    (pc = "idle" /\ op \in EngineOps \cup {"collaborative_research"}) =>
        /\ result.of = op
        /\ ~result.exc

\* learning_path_generator returned its error value after its store call raised
C3_Witness ==
    /\ pc = "idle"
    /\ op = "learning_path_generator"
    /\ calls = <<"recall_paper_memories!">>
    /\ ~result.exc
    /\ result.ret = ErrorDict

C6_AsStated ==
    [][ /\ \A b \in Researchers \ {rid'} :
               Memories(mock_memories', b) = Memories(mock_memories, b)
        /\ (pc' = "idle" /\ op' \in StoreReads =>
               \A i \in DOMAIN result'.ret :
                  \E j \in DOMAIN Memories(mock_memories', rid') :
                     mock_memories'[rid'][j] = result'.ret[i])
      ]_vars

C12_Mastery ==
    (pin.fn = "track_concept_evolution" /\ pout # NotApplied) =>
        LET n == Len(ConceptHits(pin.concept, pin.memories))
            label == pout.ret.mastery_level
        IN /\ pout.ret.total_exposures = n
           /\ label \in {"expert", "proficient", "familiar", "novice"}
           /\ (label = "expert") <=> (n >= 10)
           /\ (label = "proficient") <=> (5 <= n /\ n <= 9)
           /\ (label = "familiar") <=> (2 <= n /\ n <= 4)
           /\ (label = "novice") <=> (n <= 1)
           /\ pout.ret.evolution_score = (IF n >= 10 THEN SCALE ELSE n * (SCALE \div 10))

\* a report for exactly 10 exposures among more memories is "expert" with score 1.0
C12_Witness ==
    /\ pin.fn = "track_concept_evolution" /\ pout # NotApplied
    /\ Len(pin.memories) > 10
    /\ pout.ret.total_exposures = 10
    /\ pout.ret.mastery_level = "expert"
    /\ pout.ret.evolution_score = SCALE

\* the known concepts the learning path probe asks the graph about
ProbeSampled == Take(pin.g.order, 10)

\* C15: when none of the sampled known concepts (at most 10) has a path to the
\* target, also when the researcher knows no concept, learning_path_generator
\* returns the error result "No learning path found" with no learning steps.
C15_NotFound ==
    (/\ pin.fn = "learning_path_generator" /\ pout # NotApplied
     /\ \A i \in DOMAIN ProbeSampled : pin.g.conn[ProbeSampled[i]] = Rows(<<>>)) =>
        /\ pout.ret = [error |-> "No learning path found",
                       suggestion |-> "Start with foundational papers in this area"]
        /\ "learning_path" \notin DOMAIN pout.ret

\* eleven known concepts of which only the one outside the sample has a path:
\* the result is the error
C15_Witness ==
    /\ pin.fn = "learning_path_generator" /\ pout # NotApplied
    /\ Len(pin.g.order) = 11
    /\ pin.g.conn[pin.g.order[11]] # Rows(<<>>)
    /\ \A i \in DOMAIN ProbeSampled : pin.g.conn[ProbeSampled[i]] = Rows(<<>>)
    /\ "error" \in DOMAIN pout.ret

\* a researcher without any known concept gets the error result
C15_WitnessNoKnown ==
    /\ pin.fn = "learning_path_generator" /\ pout # NotApplied
    /\ pin.g.order = <<>>
    /\ "error" \in DOMAIN pout.ret

\* the score in three-hundredths, exactly: 9 per paper up to 10, 18 per pattern
\* up to 5, 40 per hypothesis up to 3
ScoreNumerator(p, q, h) == 9 * Min(p, 10) + 18 * Min(q, 5) + 40 * Min(h, 3)

\* C16: collaboration_score is min(p/10,1)*0.3 + min(q/5,1)*0.3 + min(h/3,1)*0.4
\* rounded to two decimals; it lies in [0,1], does not decrease when one of
\* the counts grows, and is 1.0 exactly when p >= 10, q >= 5 and h >= 3.
C16_Score ==
    (pin.fn = "_calculate_collaboration_score" /\ pout # NotApplied) =>
        LET p == pin.papers
            q == pin.patterns
            h == pin.hypotheses
        IN /\ pout.ret = ((2 * ScoreNumerator(p, q, h) + 3) \div 6) * (SCALE \div 100)
           /\ 0 <= pout.ret /\ pout.ret <= SCALE
           /\ pout.ret <= _calculate_collaboration_score(p + 1, q, h)
           /\ pout.ret <= _calculate_collaboration_score(p, q + 1, h)
           /\ pout.ret <= _calculate_collaboration_score(p, q, h + 1)
           /\ (pout.ret = SCALE) <=> (p >= 10 /\ q >= 5 /\ h >= 3)

\* a run with more than 10 papers, 5 patterns and 3 hypotheses scored 1.0
C16_Witness ==
    /\ pin.fn = "_calculate_collaboration_score" /\ pout # NotApplied
    /\ pin.papers > 10 /\ pin.patterns = 5 /\ pin.hypotheses = 3
    /\ pout.ret = SCALE

\* the papers of the probed memories that list the concept
ProbePapersOf(c) ==
    {PaperIdOf(pin.memories[i]) :
        i \in {k \in DOMAIN pin.memories :
                  \E j \in DOMAIN KeyConcepts(pin.memories[k]) : KeyConcepts(pin.memories[k])[j] = c}}

\* C19: every cross-reference links two different concepts that share at
\* least one paper, its strength is |shared papers| divided by the smaller of
\* the two concepts' paper counts and lies in (0,1], and no unordered pair
\* of concepts has two cross-references.
C19_CrossRefs ==
    (pin.fn = "_build_cross_references" /\ pout # NotApplied) =>
        /\ \A i \in DOMAIN pout.ret :
              LET x == pout.ret[i]
                  p1 == ProbePapersOf(x.concept1)
                  p2 == ProbePapersOf(x.concept2)
              IN /\ x.concept1 # x.concept2
                 /\ x.shared_papers = Cardinality(p1 \cap p2)
                 /\ x.shared_papers >= 1
                 /\ x.strength * Min(Cardinality(p1), Cardinality(p2)) <= x.shared_papers * SCALE
                 /\ (x.strength + 1) * Min(Cardinality(p1), Cardinality(p2))
                        > x.shared_papers * SCALE
                 /\ 0 < x.strength /\ x.strength <= SCALE
        /\ \A i, j \in DOMAIN pout.ret :
              i # j => {pout.ret[i].concept1, pout.ret[i].concept2}
                          # {pout.ret[j].concept1, pout.ret[j].concept2}

\* three cross-references, one of them of strength one half
C19_Witness ==
    /\ pin.fn = "_build_cross_references" /\ pout # NotApplied
    /\ Len(pout.ret) = 3
    /\ \E i \in DOMAIN pout.ret : pout.ret[i].strength = HALF

\* the scout has returned after fetching history and candidates
ScoutFetched ==
    /\ pin.fn = "scout_papers" /\ pout # NotApplied
    /\ ~pin.g.past.exc /\ ~pin.g.candidates.exc

\* ids of the first 10 candidates, of the history, of the output
ScoutFirstTen == [i \in 1 .. Min(10, Len(pin.g.candidates.v)) |-> pin.g.candidates.v[i].paper_id]
ScoutHistory == {pin.g.past.v[i].paper_id : i \in DOMAIN pin.g.past.v}
ScoutOutput == [i \in DOMAIN pout.ret |-> pout.ret[i].paper_id]

\* every output paper is one of the first 10 candidates and is not in the history
ScoutNovel ==
    \A i \in DOMAIN ScoutOutput :
        /\ \E k \in DOMAIN ScoutFirstTen : ScoutFirstTen[k] = ScoutOutput[i]
        /\ ScoutOutput[i] \notin ScoutHistory

\* the output is the first 10 candidates without those of the history, in order
ScoutComplete == ScoutOutput = SelectSeq(ScoutFirstTen, LAMBDA id : id \notin ScoutHistory)

C11_AsStated ==
    /\ (sout # NotEvaluated /\ sout2 # NotEvaluated /\ ProbeComparable
            /\ ProbeElapsed1 <= ProbeElapsed2) => sout.v >= sout2.v
    /\ (sout # NotEvaluated /\ sout3 # NotEvaluated /\ ProbeComparable
            /\ ProbeAc <= sac3) => sout.v <= sout3.v

\* C11 amended: for access counts >= 0 and a timestamp that is not so far
\* after the evaluation times that math.exp overflows, the strength does not
\* increase when the elapsed time grows and does not decrease when
\* access_count grows.
C11_Monotone ==
    /\ (sout # NotEvaluated /\ sout2 # NotEvaluated /\ ProbeComparable /\ ProbeAc >= 0
            /\ ProbeElapsed1 >= 0 - NoOverflowDays
            /\ ProbeElapsed1 <= ProbeElapsed2) => sout.v >= sout2.v
    /\ (sout # NotEvaluated /\ sout3 # NotEvaluated /\ ProbeComparable /\ ProbeAc >= 0
            /\ ProbeElapsed1 >= 0 - NoOverflowDays
            /\ ProbeAc <= sac3) => sout.v <= sout3.v

\* the same memory evaluated with a larger access count is strictly stronger
C11_Witness ==
    /\ sout # NotEvaluated /\ sout3 # NotEvaluated
    /\ ProbeComparable /\ ProbeAc >= 0 /\ ProbeAc < sac3
    /\ ProbeElapsed1 > 0
    /\ sout.v < sout3.v

\* track_concept_lifecycle has returned and its session and query succeeded
LifecycleReturned ==
    /\ pc = "idle" /\ op = "track_concept_lifecycle" /\ result.of = op
    /\ calls = <<"driver.session", "session.run">>

\* the years of the timeline the query gave (an empty timeline is not returned)
LifecycleYears == IF "timeline" \in DOMAIN result.ret THEN Len(result.ret.timeline) ELSE 0

\* C13 as stated: whenever the timeline has 0, 1 or 2 years the result
\* reports the stage "emerging".
C13_AsStated ==
    (LifecycleReturned /\ LifecycleYears < 3) =>
        Get(result.ret, "lifecycle_stage", "None") = "emerging"

\* C13 amended: with 1 or 2 years in the timeline the stage is "emerging"
\* whatever the growth rate; with no year the result is the error value
\* "No temporal data available" and carries no stage.
C13_Emerging ==
    LifecycleReturned =>
        /\ (LifecycleYears \in {1, 2} => result.ret.lifecycle_stage = "emerging")
        /\ (LifecycleYears = 0 => result.ret = [error |-> "No temporal data available"])

\* two years whose growth rate is above 2 are reported as "emerging"
C13_Witness ==
    /\ LifecycleReturned
    /\ LifecycleYears = 2
    /\ result.ret.growth_rate > 2 * SCALE
    /\ result.ret.lifecycle_stage = "emerging"

\* C14: find_synthesis_paths called with fewer than 2 concepts returns the
\* empty sequence and makes no graph call (no session, no query).
C14_NoQuery ==
    (pc = "idle" /\ op = "find_synthesis_paths" /\ result.of = op /\ Len(arg) < 2) =>
        /\ ~result.exc
        /\ result.ret = <<>>
        /\ calls = <<>>

\* a call with exactly one concept has returned
C14_Witness ==
    /\ pc = "idle" /\ op = "find_synthesis_paths" /\ result.of = op
    /\ Len(arg) = 1
    /\ result.ret = <<>>
    /\ calls = <<>>

\* an operation of the graph reasoning engine has returned after one of its
\* graph calls (session, query, related papers, bridge concepts) failed
GraphAccessFailed ==
    /\ pc = "idle" /\ op \in GraphReasoningOps /\ result.of = op
    /\ AnyFailed(calls)

\* the operations of the graph reasoning engine that return a list
ListReasoningOps == {"find_analogies", "detect_contradictions", "find_synthesis_paths",
                     "detect_research_communities"}

\* C17 as stated: each of the seven graph reasoning operations returns an
\* empty result, not an exception and not an error value, when its graph
\* access fails.
C17_AsStated ==
    GraphAccessFailed => (~result.exc /\ result.ret = <<>>)

\* C17 amended: when its graph access fails no graph reasoning operation
\* raises; analogies, contradictions, synthesis_paths and communities return
\* the empty list, and research_gaps, concept_lifecycle and
\* influence_propagation return the error value {error: message}.
C17_FailedAccess ==
    GraphAccessFailed =>
        /\ ~result.exc
        /\ (op \in ListReasoningOps => result.ret = <<>>)
        /\ (op \notin ListReasoningOps => result.ret = ErrorDict)

\* community detection has returned the empty list after its query failed
C17_Witness ==
    /\ GraphAccessFailed
    /\ op = "detect_research_communities"
    /\ calls = <<"driver.session", "session.run!">>
    /\ result.ret = <<>>

\* C18 as stated: a call of consolidate, evolution or report in which a step
\* failed (a fetch, or the gap detection report delegates to the graph)
\* returns the error result {error: message}, never a report.
C18_AsStated ==
    (/\ pc = "idle" /\ result.of = op
     /\ op \in {"consolidate_memories", "track_concept_evolution", "generate_memory_report"}
     /\ AnyFailed(calls)) =>
        result.ret = ErrorDict

\* the pattern spotter has returned from a run in which the insight was stored
SpotterDone == pin.fn = "spot_patterns" /\ pout # NotApplied /\ pin.g.put_ok

\* the concepts the spotter reads for the i-th given id: those of the first
\* stored record of that paper, none when the paper is not stored
SpottedConcepts(i) ==
    LET recs == SelectSeq(Memories(pin.mm, "r1"), LAMBDA m : m.content.paper_id = pin.ids[i])
    IN IF recs = <<>> THEN <<>> ELSE recs[1].content.key_concepts

\* the given ids whose paper lists both concepts
PapersTogether(a, b) ==
    {i \in DOMAIN pin.ids :
        /\ \E j \in DOMAIN SpottedConcepts(i) : SpottedConcepts(i)[j] = a
        /\ \E j \in DOMAIN SpottedConcepts(i) : SpottedConcepts(i)[j] = b}

\* the occurrences of the pair: a given id and two positions j < k of its
\* concept list that hold the two concepts
PairOccurrences(a, b) ==
    {t \in UNION {{i} \X (DOMAIN SpottedConcepts(i)) \X (DOMAIN SpottedConcepts(i)) :
                     i \in DOMAIN pin.ids} :
        /\ t[2] < t[3]
        /\ {SpottedConcepts(t[1])[t[2]], SpottedConcepts(t[1])[t[3]]} = {a, b}}

\* the co-occurrence patterns of the output
CoPatterns == SelectSeq(pout.ret, LAMBDA x : x.type = "concept_co_occurrence")

SpottedNames == {"c1", "c2", "c3"}

C22_AsStated ==
    SpotterDone =>
        \A i \in DOMAIN CoPatterns :
            /\ 0 < CoPatterns[i].pattern_strength
            /\ CoPatterns[i].pattern_strength <= SCALE
            /\ CoPatterns[i].concept1 # CoPatterns[i].concept2

\* the hypothesis generator has returned from a run in which the insight was stored
GeneratorDone == pin.fn = "generate_creative_hypotheses" /\ pout # NotApplied /\ pin.g.put_ok

\* the hypotheses of the output with basis "pattern_analysis"
PatternBased == SelectSeq(pout.ret, LAMBDA h : h.basis = "pattern_analysis")

\* the co-occurrence patterns among the given ones
CoOccurring(pats) == SelectSeq(pats, LAMBDA p : p.type = "concept_co_occurrence")

\* the k-th pattern hypothesis is about the k-th of the patterns and names both concepts
NamesPatterns(pats) ==
    /\ Len(PatternBased) = Len(pats)
    /\ \A k \in DOMAIN PatternBased :
          /\ \E i \in DOMAIN PatternBased[k].hypothesis_text :
                PatternBased[k].hypothesis_text[i] = pats[k].concept1
          /\ \E i \in DOMAIN PatternBased[k].hypothesis_text :
                PatternBased[k].hypothesis_text[i] = pats[k].concept2

\* C23 as stated: the number of hypotheses with basis "pattern_analysis"
\* equals the number of co-occurrence patterns in the input and each names
\* both concepts of its pattern.
C23_AsStated == GeneratorDone => NamesPatterns(CoOccurring(pin.patterns))

\* C23 amended: the generator produces one pattern_analysis hypothesis, naming
\* both concepts, for each co-occurrence pattern among the first 3 patterns
\* of its input, and none for a later pattern; a run whose insight cannot be
\* stored returns no hypothesis at all.
C23_FirstThree ==
    /\ GeneratorDone => NamesPatterns(CoOccurring(Take(pin.patterns, 3)))
    /\ (pin.fn = "generate_creative_hypotheses" /\ pout # NotApplied /\ ~pin.g.put_ok)
          => pout.ret = <<>>

\* four patterns given, the fourth a co-occurrence: two hypotheses for the
\* two co-occurrences among the first three
C23_Witness ==
    /\ GeneratorDone
    /\ Len(pin.patterns) = 4
    /\ pin.patterns[4].type = "concept_co_occurrence"
    /\ Len(CoOccurring(pin.patterns)) = 3
    /\ Len(PatternBased) = 2

\* the debate has returned
DebateDone == pin.fn = "_agent_debate" /\ pout # NotApplied

\* the keys the debate writes
DebateKeys == {"confidence_after_debate", "scout_support", "spotter_support"}

\* the returned dict d is the given hypothesis h with the debate's verdict
DebateVerdict(h, d) ==
    /\ DOMAIN d = DOMAIN h \cup DebateKeys
    /\ \A key \in DOMAIN h \ DebateKeys : d[key] = h[key]
    /\ IF "basis" \in DOMAIN h /\ h.basis = "pattern_analysis"
       THEN d.confidence_after_debate = 8000 /\ d.scout_support /\ d.spotter_support
       ELSE d.confidence_after_debate = 7000 /\ ~d.scout_support /\ d.spotter_support

\* C24: the debate returns the first min(5, n) of the n hypotheses it is
\* given, in their order; a hypothesis with basis "pattern_analysis" gets
\* confidence 0.8 with both supports true, every other one confidence 0.7
\* with scout_support false and spotter_support true.
C24_Debate ==
    DebateDone =>
        /\ Len(pout.ret) = Min(5, Len(pin.hypotheses))
        /\ \A k \in DOMAIN pout.ret : DebateVerdict(pin.hypotheses[k], pout.ret[k])

\* six hypotheses given, five returned, of both kinds
C24_Witness ==
    /\ DebateDone
    /\ Len(pin.hypotheses) = 6
    /\ Len(pout.ret) = 5
    /\ \E k \in DOMAIN pout.ret : pout.ret[k].confidence_after_debate = 8000
    /\ \E k \in DOMAIN pout.ret : pout.ret[k].confidence_after_debate = 7000

\* the lifecycle tracker has returned for a timeline of at least 3 years
LifecycleProbed ==
    pin.fn = "track_concept_lifecycle" /\ pout # NotApplied /\ Len(pin.g.run.v) >= 3

\* the papers of the rows whose year is one of years
RECURSIVE PapersWhere(_, _)
PapersWhere(rows, years) ==
    IF rows = <<>> THEN 0
    ELSE (IF Head(rows).year \in years THEN Head(rows).paper_count ELSE 0)
         + PapersWhere(Tail(rows), years)

\* the years of the rows
RowYears == {pin.g.run.v[i].year : i \in DOMAIN pin.g.run.v}

\* recent: the papers of the years >= 2020
RecentPapers == PapersWhere(pin.g.run.v, {y \in RowYears : y >= 2020})

\* early: the papers of the years < 2015, 1 when there is no such year
EarlyPapers ==
    IF \E y \in RowYears : y < 2015
    THEN PapersWhere(pin.g.run.v, {y \in RowYears : y < 2015})
    ELSE 1

\* C25: for a timeline of at least 3 years the stage is "rapid_growth" iff
\* recent/early > 2, "steady_growth" iff 1 < recent/early <= 2, "mature" iff
\* 0.5 < recent/early <= 1, and "declining" otherwise.
C25_Stage ==
    LifecycleProbed =>
        /\ EarlyPapers > 0
        /\ "lifecycle_stage" \in DOMAIN pout.ret
        /\ pout.ret.lifecycle_stage = "rapid_growth" <=> RecentPapers > 2 * EarlyPapers
        /\ pout.ret.lifecycle_stage = "steady_growth"
              <=> (RecentPapers > EarlyPapers /\ RecentPapers <= 2 * EarlyPapers)
        /\ pout.ret.lifecycle_stage = "mature"
              <=> (2 * RecentPapers > EarlyPapers /\ RecentPapers <= EarlyPapers)
        /\ pout.ret.lifecycle_stage = "declining" <=> 2 * RecentPapers <= EarlyPapers

\* a timeline of three years, none early, whose ratio to the floor 1 is
\* exactly 2: steady growth
C25_Witness ==
    /\ LifecycleProbed
    /\ ~ \E y \in RowYears : y < 2015
    /\ RecentPapers = 2
    /\ pout.ret.lifecycle_stage = "steady_growth"

\* a timeline whose recent papers are exactly half its early papers: declining
C25_WitnessHalf ==
    /\ LifecycleProbed
    /\ RecentPapers > 0
    /\ 2 * RecentPapers = EarlyPapers
    /\ pout.ret.lifecycle_stage = "declining"

\* find_synthesis_paths has returned from a call whose two queries were answered
SynthesisProbed ==
    /\ pin.fn = "find_synthesis_paths" /\ pout # NotApplied
    /\ ~pin.g.session.exc /\ ~pin.g.run1.exc /\ ~pin.g.run2.exc

\* the entries of the result of one type
SynthesisEntries(type) == SelectSeq(pout.ret, LAMBDA e : e.type = type)

\* C26 as stated: a result never contains both an existing_synthesis entry
\* (novelty "low") and a methodological_synthesis entry (novelty "medium").
C26_AsStated ==
    (pin.fn = "find_synthesis_paths" /\ pout # NotApplied) =>
        ~ /\ \E i \in DOMAIN pout.ret :
                pout.ret[i].type = "existing_synthesis" /\ pout.ret[i].novelty = "low"
          /\ \E i \in DOMAIN pout.ret :
                pout.ret[i].type = "methodological_synthesis" /\ pout.ret[i].novelty = "medium"

\* C26 amended: find_synthesis_paths looks for shared methodologies whether
\* or not a paper discusses all the given concepts: the result holds one
\* existing_synthesis entry (novelty "low") per paper found, followed by one
\* methodological_synthesis entry (novelty "medium") per shared method found.
C26_BothKinds ==
    SynthesisProbed =>
        LET found == SynthesisEntries("existing_synthesis")
            shared == SynthesisEntries("methodological_synthesis")
        IN /\ pout.ret = found \o shared
           /\ Len(found) = Len(pin.g.run1.v)
           /\ Len(shared) = Len(pin.g.run2.v)
           /\ \A i \in DOMAIN found :
                 found[i].paper_id = pin.g.run1.v[i].paper_id /\ found[i].novelty = "low"
           /\ \A i \in DOMAIN shared :
                 /\ shared[i].shared_method = pin.g.run2.v[i].method
                 /\ shared[i].novelty = "medium"

\* a paper combines the concepts and a shared method is reported all the same
C26_Witness ==
    /\ SynthesisProbed
    /\ pin.g.run1.v # <<>>
    /\ SynthesisEntries("existing_synthesis") # <<>>
    /\ SynthesisEntries("methodological_synthesis") # <<>>

\* learning_path_generator has returned
PathProbed == pin.fn = "learning_path_generator" /\ pout # NotApplied

\* the sampled known concept at position i has a path to the target
HasPath(i) == pin.g.conn[ProbeSampled[i]].v # <<>>

\* the length of its first returned path
FirstLength(i) == pin.g.conn[ProbeSampled[i]].v[1].path_length

\* position i holds the first of the sampled concepts with the shortest first path
IsNearest(i) ==
    /\ HasPath(i)
    /\ \A j \in DOMAIN ProbeSampled :
          HasPath(j) => \/ FirstLength(j) > FirstLength(i)
                        \/ FirstLength(j) = FirstLength(i) /\ j >= i

\* the graph answers the second query for the concept at position i as it
\* answered the first
SameAnswer(i) == pin.g.conn2 = pin.g.conn[ProbeSampled[i]]

\* C27: a returned learning path starts from the sampled known concept whose
\* first returned path to the target is the shortest, the first met in
\* iteration order among those that tie; and that concept, when its name is
\* not empty, is the one the path starts from.
C27_Nearest ==
    PathProbed =>
        /\ "starting_point" \in DOMAIN pout.ret =>
              \E i \in DOMAIN ProbeSampled :
                  IsNearest(i) /\ pout.ret.starting_point = ProbeSampled[i]
        /\ \A i \in DOMAIN ProbeSampled :
              (IsNearest(i) /\ SameAnswer(i) /\ ProbeSampled[i] # "") =>
                  /\ "starting_point" \in DOMAIN pout.ret
                  /\ pout.ret.starting_point = ProbeSampled[i]

\* three known concepts with paths, the last two tie on the shortest length:
\* the path starts from the second
C27_Witness ==
    /\ PathProbed
    /\ Len(ProbeSampled) = 3
    /\ HasPath(1) /\ HasPath(2) /\ HasPath(3)
    /\ FirstLength(1) > FirstLength(2)
    /\ FirstLength(2) = FirstLength(3)
    /\ "starting_point" \in DOMAIN pout.ret
    /\ pout.ret.starting_point = ProbeSampled[2]

\* C28 as stated: learning_path_generator returns a learning-path result, not
\* an error, whenever a sampled known concept has a path to the target,
\* whatever its name (the empty name included), the graph answering the same
\* query the same way within the call.
C28_AsStated ==
    (/\ PathProbed
     /\ \E i \in DOMAIN ProbeSampled : IsNearest(i) /\ SameAnswer(i)) =>
        /\ "error" \notin DOMAIN pout.ret
        /\ "learning_path" \in DOMAIN pout.ret

\* the load report has been made
LoadProbed == pin.fn = "cognitive_load_optimizer" /\ pout # NotApplied

\* the report recommends something of this type
Recommends(type) ==
    \E i \in DOMAIN pout.ret.recommendations : pout.ret.recommendations[i].type = type

\* C29 as stated: n papers in the last 24 hours are overload iff n > 5,
\* optimal iff n = 0 and moderate for 1 to 5; the reported load level and the
\* recommendation agree with this classification.
C29_AsStated ==
    LoadProbed =>
        /\ pout.ret.load_level = "high" <=> pin.papers_today > 5
        /\ pout.ret.load_level = "optimal" <=> pin.papers_today = 0
        /\ pout.ret.load_level = "moderate" <=> pin.papers_today \in 1 .. 5
        /\ Recommends("overload_warning") <=> pin.papers_today > 5
        /\ Recommends("engagement") <=> pin.papers_today = 0

\* C29 amended: the reported load level is "high" iff n > 5, "optimal" iff
\* n <= 3 and "moderate" iff n is 4 or 5; the overload warning is emitted iff
\* n > 5 and the engagement recommendation iff n = 0, neither for 1 to 5.
C29_Load ==
    LoadProbed =>
        /\ pout.ret.load_level = "high" <=> pin.papers_today > 5
        /\ pout.ret.load_level = "optimal" <=> pin.papers_today <= 3
        /\ pout.ret.load_level = "moderate" <=> pin.papers_today \in 4 .. 5
        /\ Recommends("overload_warning") <=> pin.papers_today > 5
        /\ Recommends("engagement") <=> pin.papers_today = 0
        /\ Recommends("review_needed") <=> Len(pin.weak_memories) > 10

\* one paper read today: the level is optimal and nothing is recommended
C29_Witness ==
    /\ LoadProbed
    /\ pin.papers_today = 1
    /\ pout.ret.load_level = "optimal"
    /\ pout.ret.recommendations = <<>>

\* community detection has returned
CommunitiesProbed == pin.fn = "detect_research_communities" /\ pout # NotApplied

\* the authors of the returned pairs
Collaborators ==
    {pin.g.run.v[i].author1 : i \in DOMAIN pin.g.run.v}
    \cup {pin.g.run.v[i].author2 : i \in DOMAIN pin.g.run.v}

\* a and b are a returned pair, either way round
Collaborate(a, b) ==
    \E i \in DOMAIN pin.g.run.v :
        \/ pin.g.run.v[i].author1 = a /\ pin.g.run.v[i].author2 = b
        \/ pin.g.run.v[i].author1 = b /\ pin.g.run.v[i].author2 = a

\* the authors connected to those of S by collaborations
RECURSIVE Connected(_)
Connected(S) ==
    LET more == S \cup {b \in Collaborators : \E a \in S : Collaborate(a, b)}
    IN IF more = S THEN S ELSE Connected(more)

\* the connected components of the collaboration graph
Components == {Connected({a}) : a \in Collaborators}

\* C30: detect_research_communities reports exactly the connected components
\* of the collaboration graph whose size is at least min_size: each
\* community is a whole component, no author is in two communities, and
\* every component of that size is reported exactly once.
C30_Components ==
    CommunitiesProbed =>
        LET large == {c \in Components : Cardinality(c) >= pin.min_community_size}
        IN /\ {pout.ret[i].members : i \in DOMAIN pout.ret} = large
           /\ Len(pout.ret) = Cardinality(large)
           /\ \A i \in DOMAIN pout.ret :
                 /\ pout.ret[i].size = Cardinality(pout.ret[i].members)
                 /\ \A a \in pout.ret[i].members, b \in Collaborators :
                       Collaborate(a, b) => b \in pout.ret[i].members
           /\ \A i, j \in DOMAIN pout.ret :
                 i # j => pout.ret[i].members \cap pout.ret[j].members = {}

\* three pairs that make a component of three authors and one of two, the
\* minimal size 3: only the component of three is reported
C30_Witness ==
    /\ CommunitiesProbed
    /\ pin.min_community_size = 3
    /\ Cardinality(Components) = 2
    /\ Cardinality(Collaborators) = 5
    /\ Len(pout.ret) = 1
    /\ pout.ret[1].size = 3

=============================================================================
